---- MODULE Spec2Model ----
(***************************************************************************)
(* Live Debugger (kckassette/MemorySpaceFeatures): the capture pipeline of *)
(* the LiveDebugger singleton.  The current build is the second script of  *)
(* src/unnamed/part_001 (lines 512-1210: addLog, masking, same-origin      *)
(* check); the legacy build is src/live-debugger/debugger.js (log).        *)
(*                                                                         *)
(* Strings that the code inspects or concatenates are sequences of         *)
(* one-character strings, so that substring(), startsWith(), the regular   *)
(* expression test and template literals are computed, not assumed.        *)
(* Record types and colours are opaque and are TLA+ strings.               *)
(***************************************************************************)
EXTENDS Integers, Sequences, FiniteSets, TLC

(***************************************************************************)
(* Bounds of the model.                                                    *)
(***************************************************************************)
\* records constructed in one behaviour before the environment stops
MaxNow == 4
\* nested sendToServer -> fetch -> addLog re-entries before the call stack
\* overflows (the engine's stack is finite; its size is not fixed by the code)
StackDepth == 2
\* fetch / XHR calls of the host application that may be pending at once
MaxInflight == 2

(***************************************************************************)
(* String helpers.                                                         *)
(***************************************************************************)
Min(a, b) == IF a < b THEN a ELSE b

\* String.prototype.substring(0, n)
Substring0(s, n) == SubSeq(s, 1, Min(n, Len(s)))

\* String.prototype.startsWith(p)
StartsWith(s, p) == Len(p) <= Len(s) /\ SubSeq(s, 1, Len(p)) = p

\* p occurs in s as a contiguous substring
Contains(s, p) ==
    \E i \in 0..(Len(s) - Len(p)) : SubSeq(s, i + 1, i + Len(p)) = p

\* the /i flag: letters are compared after case folding
LowerChar(c) ==
    LET up == <<"A", "B", "C", "D", "E", "F", "G", "H", "I", "J", "K", "L", "M",
                "N", "O", "P", "Q", "R", "S", "T", "U", "V", "W", "X", "Y", "Z">>
        lo == <<"a", "b", "c", "d", "e", "f", "g", "h", "i", "j", "k", "l", "m",
                "n", "o", "p", "q", "r", "s", "t", "u", "v", "w", "x", "y", "z">>
    IN IF \E i \in 1..26 : up[i] = c
       THEN lo[CHOOSE i \in 1..26 : up[i] = c]
       ELSE c

Lower(s) == [i \in 1..Len(s) |-> LowerChar(s[i])]

\* Number -> decimal string, as a template literal renders it (n >= 0)
RECURSIVE Digits(_)
Digits(n) ==
    LET d == <<"0", "1", "2", "3", "4", "5", "6", "7", "8", "9">>
    IN IF n < 10 THEN <<d[n + 1]>> ELSE Digits(n \div 10) \o <<d[(n % 10) + 1]>>

(***************************************************************************)
(* Literals of the source.                                                 *)
(***************************************************************************)
\* config.maxEntries default
DefaultMaxEntries == 100
\* e.target.value.substring(0, 50) in the input listener
InputValueCap == 50

DefaultEndpoint ==
    <<"/", "a", "p", "i", "/", "d", "e", "b", "u", "g", "-", "l", "o", "g", "s">>

colors ==
    [INIT |-> "#868DED", CLICK |-> "#DEFF63", INPUT |-> "#ffffff",
     KEY |-> "#DEFF63", FORM |-> "#8FC22A", HTMX |-> "#D67008",
     FETCH |-> "#ffffff", ERROR |-> "#D67008", WARN |-> "#D67008",
     INFO |-> "#8FC22A", DEBUG |-> "#666666", CLEAR |-> "#868DED"]

MASKED == <<"[", "M", "A", "S", "K", "E", "D", "]">>

\* `Live Debugger v1.0.0 initialized (session: ${this.sessionId})`
InitMessage(sid) ==
    <<"L", "i", "v", "e", " ", "D", "e", "b", "u", "g", "g", "e", "r", " ",
      "v", "1", ".", "0", ".", "0", " ", "i", "n", "i", "t", "i", "a", "l",
      "i", "z", "e", "d", " ", "(", "s", "e", "s", "s", "i", "o", "n", ":",
      " ">> \o sid \o <<")">>

\* `>> ${args[0]}`
FetchInitMessage(url) == <<">", ">", " ">> \o url

\* `<< ${response.status} ${args[0]}`
FetchDoneMessage(status, url) ==
    <<"<", "<", " ">> \o Digits(status) \o <<" ">> \o url

\* `Fetch error: ${error.message}`
FetchErrorMessage(msg) ==
    <<"F", "e", "t", "c", "h", " ", "e", "r", "r", "o", "r", ":", " ">> \o msg

ClearMessage ==
    <<"D", "e", "b", "u", "g", " ", "l", "o", "g", " ", "c", "l", "e", "a",
      "r", "e", "d">>

EnabledMessage ==
    <<"D", "e", "b", "u", "g", " ", "p", "a", "n", "e", "l", " ", "e", "n",
      "a", "b", "l", "e", "d">>

\* `Exported ${this.entries.length} log entries`
ExportedMessage(n) ==
    <<"E", "x", "p", "o", "r", "t", "e", "d", " ">> \o Digits(n)
      \o <<" ", "l", "o", "g", " ", "e", "n", "t", "r", "i", "e", "s">>

(***************************************************************************)
(* The environment: the page, its origin, what the host page passes to     *)
(* init, and what localStorage holds.                                      *)
(***************************************************************************)
\* window.location.origin of the page
PageOrigin ==
    <<"h", "t", "t", "p", "s", ":", "/", "/", "a", "p", "p", ".", "e", "x",
      "a", "m", "p", "l", "e", ".", "c", "o", "m">>

SameOriginEndpoint == PageOrigin \o <<"/", "c", "o", "l", "l", "e", "c", "t">>

CrossOriginEndpoint ==
    <<"h", "t", "t", "p", "s", ":", "/", "/", "e", "v", "i", "l", ".", "e",
      "x", "a", "m", "p", "l", "e", ".", "c", "o", "m", "/", "c", "o", "l",
      "l", "e", "c", "t">>

\* Date.now().toString(36), evaluated once when the script is loaded: each
\* load of the page gets another identifier than the load before it
SessionIds == {<<"k", "1">>, <<"k", "2">>}

FirstSession == <<"k", "1">>

NextSession(sid) == IF sid = <<"k", "1">> THEN <<"k", "2">> ELSE <<"k", "1">>

ConfigKeys ==
    {"enabled", "maxEntries", "persistLogs", "sendToServer", "serverEndpoint"}

\* an absolute URL of another origin whose text begins with the page origin
LookalikeEndpoint ==
    PageOrigin \o <<".", "e", "v", "i", "l", ".", "t", "e", "s", "t", "/", "x">>

\* where the authority of an absolute URL ends: the first "/" after "://"
RECURSIVE AuthorityEnd(_, _)
AuthorityEnd(url, i) ==
    IF i > Len(url) \/ url[i] = "/" THEN i - 1 ELSE AuthorityEnd(url, i + 1)

\* scheme, "://" and authority of an absolute http(s) URL
AbsoluteOrigin(url) ==
    LET k == CHOOSE i \in 1..(Len(url) - 2) :
                 SubSeq(url, i, i + 2) = <<":", "/", "/">>
    IN SubSeq(url, 1, AuthorityEnd(url, k + 3))

IsAbsolute(url) ==
    \E i \in 1..(Len(url) - 2) : SubSeq(url, i, i + 2) = <<":", "/", "/">>

\* the browser resolves the endpoint against the page: is the request
\* addressed to another origin than the page's
CrossOrigin(url) == IsAbsolute(url) /\ AbsoluteOrigin(url) # PageOrigin

\* an options object: the keys it has, and their values
Options(keys, mx, persist, send, endpoint) ==
    [keys |-> keys,
     val |-> [enabled |-> FALSE, maxEntries |-> mx, persistLogs |-> persist,
              sendToServer |-> send, serverEndpoint |-> endpoint]]

\* init() / init({})
NoOptions == Options({}, DefaultMaxEntries, FALSE, FALSE, DefaultEndpoint)

\* the option objects a host page passes to init
PageOptions ==
    { Options({"maxEntries"}, 1, FALSE, FALSE, DefaultEndpoint),
      Options({"maxEntries", "persistLogs"}, 3, TRUE, FALSE, DefaultEndpoint),
      Options({"maxEntries", "persistLogs"}, 2, TRUE, FALSE, DefaultEndpoint),
      Options({"maxEntries", "sendToServer", "serverEndpoint"},
              2, FALSE, TRUE, CrossOriginEndpoint),
      Options({"maxEntries", "sendToServer", "serverEndpoint"},
              2, FALSE, TRUE, LookalikeEndpoint),
      Options({"maxEntries", "sendToServer"}, 2, FALSE, TRUE, DefaultEndpoint),
      Options({"persistLogs", "sendToServer", "serverEndpoint"},
              DefaultMaxEntries, TRUE, TRUE, SameOriginEndpoint) }

\* a host page: the options of its init call, and whether it loads htmx
Pages ==
    [options : PageOptions, htmx : {FALSE}]
      \cup [options : {Options({"maxEntries"}, 1, FALSE, FALSE, DefaultEndpoint)},
            htmx : {TRUE}]

\* Object.assign(this.config, options)
MergeOptions(cfg, o) ==
    [k \in ConfigKeys |-> IF k \in o.keys THEN o.val[k] ELSE cfg[k]]

NoLogs == [kind |-> "absent", items |-> <<>>]

VARIABLES
    config,        \* LiveDebugger.config
    entries,       \* LiveDebugger.entries, when it is an array
    entriesType,   \* what LiveDebugger.entries is: "array", or what a
                   \* restoreLogs put there ("null", "object", "number", "string")
    sessionId,     \* LiveDebugger.sessionId
    logContainer,  \* TRUE once injectHTML has set this.logContainer
    panelDisplay,  \* this.panel.style.display ("absent": this.panel is null)
    globals,       \* which of window.fetch and XMLHttpRequest the browser has
    errorListeners,\* window 'error' listeners that setupListeners has added
    listeners,     \* how many times setupListeners has added its listeners
    htmxListeners, \* how many times setupHtmxListeners has added its own
    fetchLayers,   \* wrappers interceptFetch has put around window.fetch
    xhrLayers,     \* wrappers interceptXHR has put around open / send
    storage,       \* localStorage: the toggle key and the log key
    now,           \* records constructed so far (the clock of timestamps)
    inflight,      \* pending network calls of the host application
    page,          \* the host page: its init options, whether htmx is loaded
    base,          \* history: what the buffer held when last (re)started
    captured,      \* history: records appended since then, in order
    last           \* observation of the last operation and its outcome

vars ==
    <<config, entries, entriesType, sessionId, logContainer, panelDisplay,
      globals, errorListeners,
      listeners, htmxListeners,
      fetchLayers, xhrLayers, storage, now, inflight, page, base, captured,
      last>>

(***************************************************************************)
(* The pipeline as functions of the machine state m: the LiveDebugger      *)
(* object, localStorage, and what the running operation has done so far    *)
(* (threw: the exception propagating, uncaught: the last exception that    *)
(* left a listener, net: calls that reached the browser's own fetch /      *)
(* XMLHttpRequest, diag: console.warn / console.error lines).              *)
(***************************************************************************)
Machine ==
    [config |-> config, entries |-> entries, entriesType |-> entriesType,
     sessionId |-> sessionId,
     logContainer |-> logContainer, panelDisplay |-> panelDisplay,
     globals |-> globals, errorListeners |-> errorListeners,
     listeners |-> listeners,
     htmxListeners |-> htmxListeners, fetchLayers |-> fetchLayers,
     xhrLayers |-> xhrLayers, storage |-> storage, now |-> now,
     base |-> base, captured |-> captured,
     threw |-> "none", uncaught |-> "none", net |-> <<>>, diag |-> <<>>]

\* the details a host application attaches (JavaScript values, by their source
\* text): none, a mapping of JSON values, a mapping that holds a NaN
DetailNull == "null"

DetailMapping == "{status: 200}"

DetailNaN == "{ratio: NaN}"

DetailValues == {DetailNull, DetailMapping, DetailNaN}

\* the details field after JSON.stringify and JSON.parse: JSON has no NaN,
\* JSON.stringify writes null for it
JsonOfDetails(d) == IF d = DetailNaN THEN "{ratio: null}" ELSE d

\* a serialisation that writes the fixed fields of a record and no details
JsonStringifyWithoutDetails(es) ==
    [kind |-> "array",
     items |-> [i \in 1..Len(es) |-> [es[i] EXCEPT !.details = DetailNull]]]

\* JSON.stringify(this.entries): the text stored under the log key
JsonStringify(es) ==
    [kind |-> "array",
     items |-> [i \in 1..Len(es) |->
                   [es[i] EXCEPT !.details = JsonOfDetails(es[i].details)]]]

\* JSON.parse of a stored text
JsonParse(text) == text.items

\* persistLogs(): localStorage.setItem('live-debugger-logs', ...); when the
\* quota is exhausted setItem throws, the catch reports it and the stored
\* text stays what it was
persistLogs(m) ==
    IF m.storage.full
    THEN [m EXCEPT !.diag = Append(@, "failed-to-persist")]
    ELSE [m EXCEPT !.storage.logs = JsonStringify(m.entries)]

\* a restoreLogs that also resumes the session of the newest stored record
restoreLogsResumingSession(m) ==
    LET kind == m.storage.logs.kind
        items == m.storage.logs.items
    IN IF kind = "array" /\ items # <<>>
       THEN [m EXCEPT !.entries = items,
                      !.entriesType = "array",
                      !.sessionId = items[Len(items)].sessionId,
                      !.base = items,
                      !.captured = <<>>]
       ELSE m

\* restoreLogs(): this.entries = JSON.parse(stored), when something is stored.
\* A text that does not parse throws before the assignment; a parsed value
\* that is no array is assigned and throws at .forEach; both are caught
restoreLogs(m) ==
    LET kind == m.storage.logs.kind
    IN IF kind = "absent"
       THEN m
       ELSE IF kind = "unparseable"
       THEN [m EXCEPT !.diag = Append(@, "failed-to-restore")]
       ELSE IF kind = "array"
       THEN [m EXCEPT !.entries = JsonParse(m.storage.logs),
                      !.entriesType = "array",
                      !.base = JsonParse(m.storage.logs),
                      !.captured = <<>>]
       ELSE [m EXCEPT !.entries = <<>>,
                      !.entriesType = kind,
                      !.base = <<>>,
                      !.captured = <<>>,
                      !.diag = Append(@, "failed-to-restore")]

\* the endpoint test of sendToServer: relative, or starting with the origin
EndpointAllowed(endpoint) ==
    StartsWith(endpoint, <<"/">>) \/ StartsWith(endpoint, PageOrigin)

\* the render step of addLog: this.logContainer.appendChild(div)
Render(m) ==
    IF m.logContainer THEN m ELSE [m EXCEPT !.threw = "TypeError"]

\* a buffer that drops the newest record instead of the oldest (pop for shift)
LimitDropsNewest(pushed, maxEntries) ==
    IF Len(pushed) > maxEntries
    THEN SubSeq(pushed, 1, Len(pushed) - 1)
    ELSE pushed

\* "Limit entries": entries.shift() once when the length exceeds maxEntries
Limit(pushed, maxEntries) ==
    IF Len(pushed) > maxEntries THEN Tail(pushed) ELSE pushed

RECURSIVE addLog(_, _, _, _, _, _), sendToServer(_, _, _), GlobalFetch(_, _, _, _)

\* an addLog that sends the record before it writes the snapshot
addLogSendingFirst(m, type, message, color, details, depth) ==
    LET entry == [timestamp |-> m.now + 1, sessionId |-> m.sessionId,
                  type |-> type, message |-> message, color |-> color,
                  details |-> details]
        pushed == Append(m.entries, entry)
        evict == Len(pushed) > m.config.maxEntries
        m1 == [m EXCEPT !.entries = Limit(pushed, m.config.maxEntries),
                        !.now = @ + 1,
                        !.captured = Append(@, [entry |-> entry,
                                                cap |-> m.config.maxEntries])]
        m2 == IF m1.config.sendToServer
              THEN sendToServer(m1, entry, depth)
              ELSE m1
        m3 == IF m2.config.persistLogs THEN persistLogs(m2) ELSE m2
    IN IF m.entriesType # "array"
       THEN [m EXCEPT !.threw = "TypeError", !.now = @ + 1]
       ELSE IF evict /\ ~m.logContainer
       THEN [m1 EXCEPT !.threw = "TypeError"]
       ELSE IF m2.threw # "none" THEN m2 ELSE Render(m3)

\* addLog(type, message, color, details); depth counts the sendToServer
\* calls that are on the call stack
addLog(m, type, message, color, details, depth) ==
    LET entry == [timestamp |-> m.now + 1, sessionId |-> m.sessionId,
                  type |-> type, message |-> message, color |-> color,
                  details |-> details]
        pushed == Append(m.entries, entry)
        evict == Len(pushed) > m.config.maxEntries
        m1 == [m EXCEPT !.entries = Limit(pushed, m.config.maxEntries),
                        !.now = @ + 1,
                        !.captured = Append(@, [entry |-> entry,
                                                cap |-> m.config.maxEntries])]
        m2 == IF m1.config.persistLogs THEN persistLogs(m1) ELSE m1
        m3 == IF m2.config.sendToServer
              THEN sendToServer(m2, entry, depth)
              ELSE m2
    IN IF m.entriesType # "array"
       THEN [m EXCEPT !.threw = "TypeError",    \* this.entries.push
                      !.now = @ + 1]
       ELSE IF evict /\ ~m.logContainer
       THEN [m1 EXCEPT !.threw = "TypeError"]   \* this.logContainer.firstChild
       ELSE IF m3.threw # "none" THEN m3 ELSE Render(m3)

\* sendToServer(entry)
sendToServer(m, entry, depth) ==
    LET endpoint == m.config.serverEndpoint
    IN IF endpoint = <<>>
       THEN m
       ELSE IF ~EndpointAllowed(endpoint)
       THEN [m EXCEPT !.diag = Append(@, "blocked-cross-origin")]
       ELSE IF depth >= StackDepth
       THEN [m EXCEPT !.threw = "RangeError"]  \* call stack exhausted
       ELSE GlobalFetch(m, [api |-> "fetch", method |-> "POST",
                            url |-> endpoint, body |-> <<entry>>],
                        m.fetchLayers, depth + 1)

\* wrappers that delegate without logging the call
GlobalFetchUnlogged(m, req, layer, depth) ==
    [m EXCEPT !.net = Append(@, req)]

\* a call of window.fetch that enters at wrapper number `layer` (0: the
\* browser's own fetch).  Each wrapper logs the call and then delegates.
GlobalFetch(m, req, layer, depth) ==
    IF layer = 0
    THEN IF m.globals.fetch
         THEN [m EXCEPT !.net = Append(@, req)]
         ELSE [m EXCEPT !.threw = "TypeError"]   \* no function to call
    ELSE LET m1 == addLog(m, "FETCH", FetchInitMessage(req.url),
                          colors.FETCH, "null", depth)
         IN IF m1.threw # "none"
            THEN m1
            ELSE GlobalFetch(m1, req, layer - 1, depth)

(***************************************************************************)
(* Listeners.  A listener turns its event into a list of addLog calls; an  *)
(* exception that leaves a listener is reported to the window 'error'      *)
(* listeners, and the next listener of the event still runs.               *)
(***************************************************************************)
LogCall(type, message, color) ==
    [type |-> type, message |-> message, color |-> color]

\* what the browser reports for an uncaught exception (text, file, position)
UncaughtText(kind) ==
    IF kind = "RangeError"
    THEN <<"U", "n", "c", "a", "u", "g", "h", "t", " ", "R", "a", "n", "g", "e",
           "E", "r", "r", "o", "r">>
    ELSE <<"U", "n", "c", "a", "u", "g", "h", "t", " ", "T", "y", "p", "e", "E",
           "r", "r", "o", "r">>

\* `${e.message} at ${e.filename}:${e.lineno}:${e.colno}`
ErrorEventMessage(kind) ==
    UncaughtText(kind) \o <<" ", "a", "t", " ">>
      \o <<"d", "e", "b", "u", "g", "g", "e", "r", ".", "j", "s">>
      \o <<":">> \o Digits(1) \o <<":">> \o Digits(1)

\* the statements of one listener, in order, until one throws
RECURSIVE RunHandler(_, _)
RunHandler(m, logs) ==
    IF logs = <<>> \/ m.threw # "none"
    THEN m
    ELSE RunHandler(addLog(m, logs[1].type, logs[1].message, logs[1].color,
                           "null", 0),
                    Tail(logs))

\* window.addEventListener('error', ...): one ERROR record per listener; an
\* exception inside error reporting is not reported again
RECURSIVE ErrorListeners(_, _, _)
ErrorListeners(m, n, kind) ==
    IF n = 0
    THEN m
    ELSE LET m1 == addLog([m EXCEPT !.threw = "none"], "ERROR",
                          ErrorEventMessage(kind), colors.ERROR, "null", 0)
         IN ErrorListeners([m1 EXCEPT !.threw = "none"], n - 1, kind)

ReportException(m) ==
    IF m.threw = "none"
    THEN m
    ELSE ErrorListeners([m EXCEPT !.uncaught = m.threw], m.errorListeners,
                        m.threw)

\* n listeners of one event, each doing `logs`
RECURSIVE Dispatch(_, _, _)
Dispatch(m, n, logs) ==
    IF n = 0
    THEN m
    ELSE Dispatch(ReportException(RunHandler([m EXCEPT !.threw = "none"], logs)),
                  n - 1, logs)

\* the variables take the values the operation left in m
Commit(m) ==
    /\ config' = m.config
    /\ entries' = m.entries
    /\ entriesType' = m.entriesType
    /\ logContainer' = m.logContainer
    /\ panelDisplay' = m.panelDisplay
    /\ globals' = m.globals
    /\ errorListeners' = m.errorListeners
    /\ listeners' = m.listeners
    /\ htmxListeners' = m.htmxListeners
    /\ fetchLayers' = m.fetchLayers
    /\ xhrLayers' = m.xhrLayers
    /\ storage' = m.storage
    /\ now' = m.now
    /\ base' = m.base
    /\ captured' = m.captured

NoEvent == [kind |-> "none"]

\* what an operation leaves for inspection: the event, the exception that
\* reached the caller, the calls that reached the network, the diagnostics
Observe(op, ev, m, result) ==
    [op |-> op, ev |-> ev, threw |-> m.threw, uncaught |-> m.uncaught,
     net |-> m.net, diag |-> m.diag, since |-> now, result |-> result]

(***************************************************************************)
(* Operations of the LiveDebugger object.                                  *)
(***************************************************************************)
\* display: ${this.config.enabled ? 'block' : 'none'}
Display(enabled) == IF enabled THEN "block" ELSE "none"

\* the config literal, evaluated when the script is loaded
DefaultConfig(st) ==
    [enabled |-> (st.enabled = "true"), maxEntries |-> DefaultMaxEntries,
     persistLogs |-> FALSE, sendToServer |-> FALSE,
     serverEndpoint |-> DefaultEndpoint]

\* a browser that has window.fetch and XMLHttpRequest
AllGlobals == [fetch |-> TRUE, xhr |-> TRUE]

Loaded ==
    [op |-> "load", ev |-> NoEvent, threw |-> "none", uncaught |-> "none",
     net |-> <<>>, diag |-> <<>>, since |-> 0, result |-> NoEvent]

Init ==
    /\ storage = [enabled |-> "absent", logs |-> NoLogs, full |-> FALSE]
    /\ config = DefaultConfig(storage)
    /\ entries = <<>>
    /\ entriesType = "array"
    /\ sessionId = FirstSession
    /\ logContainer = FALSE
    /\ panelDisplay = "absent"
    /\ globals = AllGlobals
    /\ errorListeners = 0
    /\ listeners = 0
    /\ htmxListeners = 0
    /\ fetchLayers = 0
    /\ xhrLayers = 0
    /\ now = 0
    /\ inflight = <<>>
    /\ page \in Pages
    /\ base = <<>>
    /\ captured = <<>>
    /\ last = Loaded

\* a page of `pages` is loaded: the script runs afresh, localStorage remains
LoadPage(pages) ==
    /\ now > 0
    /\ config' = DefaultConfig(storage)
    /\ entries' = <<>>
    /\ entriesType' = "array"
    /\ sessionId' = NextSession(sessionId)
    /\ logContainer' = FALSE
    /\ panelDisplay' = "absent"
    /\ errorListeners' = 0
    /\ listeners' = 0
    /\ htmxListeners' = 0
    /\ fetchLayers' = 0
    /\ xhrLayers' = 0
    /\ inflight' = <<>>
    /\ page' \in pages
    /\ base' = <<>>
    /\ captured' = <<>>
    /\ last' = [Loaded EXCEPT !.since = now]
    /\ UNCHANGED <<storage, now, globals>>

Reload == LoadPage(Pages)

MethodGet == <<"G", "E", "T">>

\* fontLink.href of the stylesheet link that injectHTML adds to the document
FontsUrl ==
    <<"h", "t", "t", "p", "s", ":", "/", "/", "f", "o", "n", "t", "s", ".",
      "g", "o", "o", "g", "l", "e", "a", "p", "i", "s", ".", "c", "o", "m",
      "/", "c", "s", "s", "2", "?", "f", "a", "m", "i", "l", "y", "=", "J",
      "e", "t", "B", "r", "a", "i", "n", "s", "+", "M", "o", "n", "o", ":",
      "w", "g", "h", "t", "@", "4", "0", "0", ";", "7", "0", "0", "&", "d",
      "i", "s", "p", "l", "a", "y", "=", "s", "w", "a", "p">>

\* injectHTML: unless the document has the link already (it has it once
\* injectHTML has run), a stylesheet link is appended to document.head, which
\* makes the browser request its href
FontRequest(m) ==
    IF m.logContainer
    THEN <<>>
    ELSE <<[api |-> "link", method |-> MethodGet, url |-> FontsUrl,
            body |-> <<>>]>>

\* init(options): merge, injectHTML, setupListeners, restoreLogs, addLog
InitCall(m, options, htmx) ==
    LET m0 == [m EXCEPT !.config = MergeOptions(m.config, options),
                        !.net = @ \o FontRequest(m),
                        !.logContainer = TRUE,
                        !.panelDisplay =
                            Display(MergeOptions(m.config, options).enabled),
                        !.listeners = @ + 1,
                        !.htmxListeners = IF htmx THEN @ + 1 ELSE @,
                        !.fetchLayers = @ + 1]
        m1 == [m0 EXCEPT !.xhrLayers = @ + 1,
                         !.errorListeners = @ + 1]
        m2 == IF m1.config.persistLogs THEN restoreLogs(m1) ELSE m1
    IN IF ~m.globals.xhr
       THEN [m0 EXCEPT !.threw = "ReferenceError"]  \* XMLHttpRequest.prototype
       ELSE addLog(m2, "INIT", InitMessage(m2.sessionId), colors.INIT, "null",
                   0)

init ==
    \E options \in {NoOptions, page.options} :
        LET m == InitCall(Machine, options, page.htmx)
        IN /\ now < MaxNow
           /\ Commit(m)
           /\ last' = Observe("init", [kind |-> "init", options |-> options],
                              m, NoEvent)
           /\ UNCHANGED <<sessionId, inflight, page>>

\* the public capture API: LiveDebugger.addLog(type, message, color)
CustomMessages == {<<"A">>, <<"B">>}

CustomLog ==
    \E msg \in CustomMessages :
        LET m == addLog(Machine, "INFO", msg, colors.INFO, "null", 0)
        IN /\ now < MaxNow
           /\ Commit(m)
           /\ last' = Observe("addLog", [kind |-> "custom", message |-> msg],
                              m, NoEvent)
           /\ UNCHANGED <<sessionId, inflight, page>>

\* the public capture API with a details argument
DetailLog ==
    \E d \in DetailValues :
        LET m == addLog(Machine, "INFO", <<"A">>, colors.INFO, d, 0)
        IN /\ now < MaxNow
           /\ Commit(m)
           /\ last' = Observe("addLog", [kind |-> "custom", message |-> <<"A">>],
                              m, NoEvent)
           /\ UNCHANGED <<sessionId, inflight, page>>

\* the click listeners of the Clear button: one per setupListeners call, all
\* on the first panel's button
\* a Clear handler that logs the CLEAR record and leaves the array alone
RECURSIVE ClearHandlersKeepingEntries(_, _)
ClearHandlersKeepingEntries(m, n) ==
    IF n = 0
    THEN m
    ELSE ClearHandlersKeepingEntries(
             ReportException(addLog([m EXCEPT !.threw = "none"], "CLEAR",
                                    ClearMessage, colors.INFO, "null", 0)),
             n - 1)

RECURSIVE ClearHandlers(_, _)
ClearHandlers(m, n) ==
    IF n = 0
    THEN m
    ELSE LET m1 == [m EXCEPT !.entries = <<>>, !.entriesType = "array",
                             !.base = <<>>,
                             !.captured = <<>>, !.threw = "none"]
         IN ClearHandlers(
                ReportException(addLog(m1, "CLEAR", ClearMessage, colors.INFO,
                                       "null", 0)),
                n - 1)

ClearClick ==
    LET m == ClearHandlers(Machine, listeners)
    IN /\ listeners > 0
       /\ now < MaxNow
       /\ Commit(m)
       /\ last' = Observe("clear", NoEvent, m, NoEvent)
       /\ UNCHANGED <<sessionId, inflight, page>>

\* String(value) of a boolean, as localStorage.setItem stores it
BoolString(b) == IF b THEN "true" ELSE "false"

\* a toggle that switches the panel and writes nothing to localStorage
ToggleCallWithoutStorage(m) ==
    LET on == ~m.config.enabled
        m1 == [m EXCEPT !.config.enabled = on]
        m2 == [m1 EXCEPT !.panelDisplay = Display(on)]
    IN IF m.panelDisplay = "absent"
       THEN [m1 EXCEPT !.threw = "TypeError"]
       ELSE IF on
       THEN addLog(m2, "INFO", EnabledMessage, colors.INFO, "null", 0)
       ELSE m2

\* toggle()
ToggleCall(m) ==
    LET on == ~m.config.enabled
        m1 == [m EXCEPT !.config.enabled = on,
                        !.storage.enabled = BoolString(on)]
        m2 == [m1 EXCEPT !.panelDisplay = Display(on)]
    IN IF m.panelDisplay = "absent"
       THEN [m1 EXCEPT !.threw = "TypeError"]      \* this.panel is null
       ELSE IF on
       THEN addLog(m2, "INFO", EnabledMessage, colors.INFO, "null", 0)
       ELSE m2

toggle ==
    LET m == ToggleCall(Machine)
    IN /\ now < MaxNow
       /\ Commit(m)
       /\ last' = Observe("toggle",
                          [kind |-> "toggle", enabled |-> config.enabled,
                           display |-> panelDisplay],
                          m, NoEvent)
       /\ UNCHANGED <<sessionId, inflight, page>>

\* window.location and navigator.userAgent of the page
Pathname == <<"/", "a", "p", "p">>

Search == <<"?", "t", "o", "k", "e", "n", "=", "a", "b", "c">>

Href == PageOrigin \o Pathname \o Search

UserAgent == <<"M", "o", "z", "i", "l", "l", "a", "/", "5", ".", "0">>

\* exportLogs(): the document, then one INFO record
ExportDocument(m) ==
    [sessionId |-> m.sessionId, exportedAt |-> m.now, pageUrl |-> Pathname,
     entries |-> JsonStringify(m.entries).items]

exportLogs ==
    LET m == addLog(Machine, "INFO", ExportedMessage(Len(entries)),
                    colors.INFO, "null", 0)
    IN /\ now < MaxNow
       /\ Commit(m)
       /\ last' = Observe("export", NoEvent, m, ExportDocument(Machine))
       /\ UNCHANGED <<sessionId, inflight, page>>

(***************************************************************************)
(* The DOM interceptor: the input listener, and htmx:configRequest.        *)
(***************************************************************************)
SensitiveWords ==
    { <<"p", "a", "s", "s", "w", "o", "r", "d">>,
      <<"s", "e", "c", "r", "e", "t">>,
      <<"t", "o", "k", "e", "n">>,
      <<"k", "e", "y">>,
      <<"a", "u", "t", "h">>,
      <<"c", "r", "e", "d", "e", "n", "t", "i", "a", "l">>,
      <<"s", "s", "n">>,
      <<"c", "r", "e", "d", "i", "t">>,
      <<"c", "a", "r", "d">> }

\* /password|secret|token|key|auth|credential|ssn|credit|card/i .test(s)
sensitivePatterns(s) == \E w \in SensitiveWords : Contains(Lower(s), w)

\* e.target.id || e.target.name || 'unnamed'
FieldId(el) ==
    IF el.id # <<>> THEN el.id
    ELSE IF el.name # <<>> THEN el.name
    ELSE <<"u", "n", "n", "a", "m", "e", "d">>

\* e.target.type || 'text'
InputType(el) == IF el.type # <<>> THEN el.type ELSE <<"t", "e", "x", "t">>

PasswordType == <<"p", "a", "s", "s", "w", "o", "r", "d">>

\* a masking decision that looks at the identifier only
isSensitiveByNameOnly(id, inputType) == sensitivePatterns(id)

\* const isSensitive = sensitivePatterns.test(id) || inputType === 'password'
isSensitive(id, inputType) ==
    sensitivePatterns(id) \/ inputType = PasswordType

\* `${id} = "${value}"`
InputMessage(id, value) ==
    id \o <<" ", "=", " ", "\"">> \o value \o <<"\"">>

\* the input listener: the addLog calls it makes for an event on el
InputLogs(el) ==
    IF el.inPanel
    THEN <<>>
    ELSE IF Lower(el.tag) \notin {<<"i", "n", "p", "u", "t">>,
                                  <<"t", "e", "x", "t", "a", "r", "e", "a">>}
    THEN <<>>
    ELSE LET id == FieldId(el)
             value == IF isSensitive(id, InputType(el))
                      THEN MASKED
                      ELSE Substring0(el.value, InputValueCap)
         IN <<LogCall("INPUT", InputMessage(id, value), colors.INPUT)>>

\* application/x-www-form-urlencoded, as URLSearchParams.toString() writes it
FormEncodeChar(c) ==
    CASE c = " " -> <<"+">>
      [] c = "&" -> <<"%", "2", "6">>
      [] c = "=" -> <<"%", "3", "D">>
      [] c = "/" -> <<"%", "2", "F">>
      [] OTHER -> <<c>>

RECURSIVE FormEncode(_)
FormEncode(str) ==
    IF str = <<>> THEN <<>> ELSE FormEncodeChar(Head(str)) \o FormEncode(Tail(str))

\* new URLSearchParams(parameters).toString()
RECURSIVE URLSearchParams(_)
URLSearchParams(params) ==
    IF params = <<>>
    THEN <<>>
    ELSE FormEncode(params[1].name) \o <<"=">> \o FormEncode(params[1].value)
           \o (IF Len(params) > 1
               THEN <<"&">> \o URLSearchParams(Tail(params))
               ELSE <<>>)

\* `Config: ${url}?${params}`
ConfigMessage(url, params) ==
    <<"C", "o", "n", "f", "i", "g", ":", " ">> \o url \o <<"?">>
      \o URLSearchParams(params)

\* the htmx:configRequest listener
ConfigRequestLogs(detail) ==
    <<LogCall("HTMX", ConfigMessage(detail.path, detail.parameters),
              colors.HTMX)>>

\* what a user types
Hunter2 == <<"h", "u", "n", "t", "e", "r", "2">>

LongValue == [i \in 1..(InputValueCap + 1) |-> "x"]

Element(tag, id, name, type, inPanel) ==
    [tag |-> tag, id |-> id, name |-> name, type |-> type, inPanel |-> inPanel]

TagInput == <<"I", "N", "P", "U", "T">>

TypeText == <<"t", "e", "x", "t">>

\* the form fields of the page, and one field of the debug panel itself
Elements ==
    { Element(TagInput, <<>>, <<"p", "a", "s", "s", "w", "o", "r", "d">>,
              TypeText, FALSE),
      Element(TagInput, <<"e", "m", "a", "i", "l">>, <<>>, TypeText, FALSE),
      Element(TagInput, <<"q">>, <<>>, PasswordType, FALSE),
      Element(TagInput, <<"u", "s", "e", "r">>,
              <<"a", "p", "i", "K", "e", "y">>, TypeText, FALSE),
      Element(<<"T", "E", "X", "T", "A", "R", "E", "A">>,
              <<"T", "o", "k", "e", "n">>, <<>>,
              <<"t", "e", "x", "t", "a", "r", "e", "a">>, FALSE),
      Element(TagInput, <<>>, <<>>, <<>>, FALSE),
      Element(<<"D", "I", "V">>, <<"e", "m", "a", "i", "l">>, <<>>, <<>>, FALSE),
      Element(TagInput, <<"q">>, <<>>, TypeText, TRUE) }

\* what a user types into which field
Typing ==
    [el : Elements, value : {Hunter2}]
      \cup [el : {Element(TagInput, <<"e", "m", "a", "i", "l">>, <<>>,
                          TypeText, FALSE)},
            value : {LongValue}]

Target(el, v) ==
    [tag |-> el.tag, id |-> el.id, name |-> el.name, type |-> el.type,
     inPanel |-> el.inPanel, value |-> v]

InputEvent ==
    /\ listeners > 0
    /\ now < MaxNow
    /\ \E t \in Typing :
         \E m \in {Dispatch(Machine, listeners, InputLogs(Target(t.el, t.value)))} :
            /\ Commit(m)
            /\ last' = Observe("input", Target(t.el, t.value), m, NoEvent)
            /\ UNCHANGED <<sessionId, inflight, page>>

\* the requests htmx configures: a login form, a search form
ConfigDetails ==
    { [path |-> <<"/", "l", "o", "g", "i", "n">>,
       parameters |-> << [name |-> <<"u", "s", "e", "r">>, value |-> <<"a", "l">>],
                         [name |-> <<"p", "a", "s", "s", "w", "o", "r", "d">>,
                          value |-> Hunter2] >>],
      [path |-> <<"/", "s">>,
       parameters |-> << [name |-> <<"q">>, value |-> <<"a", " ", "b">>] >>] }

HtmxConfigRequest ==
    \E detail \in ConfigDetails :
        LET m == Dispatch(Machine, htmxListeners, ConfigRequestLogs(detail))
        IN /\ htmxListeners > 0
           /\ now < MaxNow
           /\ Commit(m)
           /\ last' = Observe("htmx:configRequest", detail, m, NoEvent)
           /\ UNCHANGED <<sessionId, inflight, page>>

(***************************************************************************)
(* The DOM interceptor: the click, submit and keydown listeners.           *)
(***************************************************************************)
\* String.prototype.trim(), for blanks
RECURSIVE TrimStart(_)
TrimStart(s) == IF s # <<>> /\ Head(s) = " " THEN TrimStart(Tail(s)) ELSE s

RECURSIVE TrimEnd(_)
TrimEnd(s) ==
    IF s # <<>> /\ s[Len(s)] = " "
    THEN TrimEnd(SubSeq(s, 1, Len(s) - 1))
    ELSE s

Trim(s) == TrimEnd(TrimStart(s))

\* Array.prototype.join('.')
RECURSIVE Join(_)
Join(list) ==
    IF list = <<>> THEN <<>>
    ELSE IF Len(list) = 1 THEN list[1]
    ELSE list[1] \o <<".">> \o Join(Tail(list))

ClickTextCap == 40

\* `${tagName}${id}${classes} - "${text}"`
ClickMessage(el) ==
    Lower(el.tag)
      \o (IF el.id # <<>> THEN <<"#">> \o el.id ELSE <<>>)
      \o (IF el.classList # <<>> THEN <<".">> \o Join(el.classList) ELSE <<>>)
      \o <<" ", "-", " ", "\"">>
      \o (IF el.text # <<>> THEN Substring0(Trim(el.text), ClickTextCap)
          ELSE <<>>)
      \o <<"\"">>

HxMessage(name, value) ==
    <<"E", "l", "e", "m", "e", "n", "t", " ", "h", "a", "s",
          " ">> \o name \o <<"=", "\"">> \o value \o <<"\"">>

HxGet == <<"h", "x", "-", "g", "e", "t">>

HxPost == <<"h", "x", "-", "p", "o", "s", "t">>

\* the click listener: the addLog calls it makes for a click on el
ClickLogs(el) ==
    IF el.inPanel
    THEN <<>>
    ELSE <<LogCall("CLICK", ClickMessage(el), colors.CLICK)>>
           \o (IF HxGet \in DOMAIN el.attributes
               THEN <<LogCall("HTMX", HxMessage(HxGet, el.attributes[HxGet]),
                              colors.HTMX)>>
               ELSE <<>>)
           \o (IF HxPost \in DOMAIN el.attributes
               THEN <<LogCall("HTMX", HxMessage(HxPost,
                     el.attributes[HxPost]),
                              colors.HTMX)>>
               ELSE <<>>)

\* `Form submitted: ${e.target.action || 'no action'}`
SubmitMessage(action) ==
    <<"F", "o", "r", "m", " ", "s", "u", "b", "m", "i", "t", "t", "e", "d",
          ":", " ">> \o (IF action # <<>> THEN action ELSE <<"n", "o", " ",
          "a", "c", "t", "i", "o", "n">>)

\* the submit listener
SubmitLogs(form) ==
    <<LogCall("FORM", SubmitMessage(form.action), colors.FORM)>>

KeyEnter == <<"E", "n", "t", "e", "r">>

KeyEscape == <<"E", "s", "c", "a", "p", "e">>

KeySlash == <<"/">>

\* `${e.key} pressed on ${e.target.tagName}${e.target.id ? '#' + e.target.id : ''}`
KeyMessage(ev) ==
    ev.key \o <<" ", "p", "r", "e", "s", "s", "e", "d", " ", "o", "n",
          " ">> \o ev.target.tag
      \o (IF ev.target.id # <<>> THEN <<"#">> \o ev.target.id ELSE <<>>)

\* a keydown listener that records every key
KeydownLogsOfEveryKey(ev) ==
    <<LogCall("KEY", KeyMessage(ev), colors.KEY)>>

\* the keydown listener
KeydownLogs(ev) ==
    IF ev.key \in {KeyEnter, KeyEscape, KeySlash}
    THEN <<LogCall("KEY", KeyMessage(ev), colors.KEY)>>
    ELSE <<>>

Node(tag, id, classList, text, attributes, inPanel) ==
    [tag |-> tag, id |-> id, classList |-> classList, text |-> text,
     attributes |-> attributes, inPanel |-> inPanel]

NoAttributes == [n \in {} |-> <<>>]

\* the Clear button of the debug panel
PanelButton ==
    Node(<<"B", "U", "T", "T", "O", "N">>, <<"d", "e", "b", "u", "g", "-",
          "c", "l", "e", "a", "r">>, <<>>, <<"C", "l", "e", "a", "r">>,
          NoAttributes, TRUE)

SearchField == Node(<<"I", "N", "P", "U", "T">>, <<"q">>, <<>>, <<>>,
      NoAttributes, FALSE)

\* an element styled with utility classes: c1, c2, ...
UtilityClasses == 60

StyledBlock ==
    Node(<<"D", "I", "V">>, <<>>,
          [i \in 1..UtilityClasses |-> <<"c">> \o Digits(i)],
         <<"H", "e", "l", "l", "o">>, NoAttributes, FALSE)

\* what users click
ClickTargets ==
    { Node(<<"B", "U", "T", "T", "O", "N">>, <<"s", "a", "v", "e">>, <<<<"b",
          "t", "n">>, <<"p", "r", "i", "m", "a", "r", "y">>>>, <<" ", " ",
          "S", "a", "v", "e", " ">>,
           [n \in {HxPost} |-> <<"/", "s", "a", "v", "e">>], FALSE),
      Node(<<"A">>, <<>>, <<>>, <<"M", "o", "r", "e">>,
            [n \in {HxGet} |-> <<"/", "m", "o", "r", "e">>], FALSE),
      StyledBlock,
      PanelButton }

ClickEvent ==
    /\ listeners > 0
    /\ now < MaxNow
    /\ \E el \in ClickTargets :
         LET m == Dispatch(Machine, listeners, ClickLogs(el))
         IN /\ Commit(m)
            /\ last' = Observe("click", el, m, NoEvent)
            /\ UNCHANGED <<sessionId, inflight, page>>

\* the forms of the page, by the value of their action property
Forms == { [action |-> PageOrigin \o <<"/", "l", "o", "g", "i", "n">>],
      [action |-> <<>>] }

SubmitEvent ==
    /\ listeners > 0
    /\ now < MaxNow
    /\ \E form \in Forms :
         LET m == Dispatch(Machine, listeners, SubmitLogs(form))
         IN /\ Commit(m)
            /\ last' = Observe("submit", form, m, NoEvent)
            /\ UNCHANGED <<sessionId, inflight, page>>

\* the keys users press, in a field of the page or on a button of the panel
PressedKeys == {KeyEnter, KeyEscape, KeySlash, <<"a">>}

Keydowns == [key : PressedKeys, target : {SearchField, PanelButton}]

KeydownEvent ==
    /\ listeners > 0
    /\ now < MaxNow
    /\ \E ev \in Keydowns :
         LET m == Dispatch(Machine, listeners, KeydownLogs(ev))
         IN /\ Commit(m)
            /\ last' = Observe("keydown", ev, m, NoEvent)
            /\ UNCHANGED <<sessionId, inflight, page>>

(***************************************************************************)
(* The network interceptor: the wrappers of window.fetch and of            *)
(* XMLHttpRequest.prototype.open / send, called by the host application.   *)
(***************************************************************************)
\* the request of the host application
AppUrl == <<"/", "a", "p", "i">>

FailedToFetch ==
    <<"F", "a", "i", "l", "e", "d", " ", "t", "o", " ", "f", "e", "t", "c", "h">>

\* error.message of an exception raised inside the debugger
ErrorText(kind) ==
    IF kind = "RangeError"
    THEN <<"M", "a", "x", "i", "m", "u", "m", " ", "c", "a", "l", "l", " ",
           "s", "t", "a", "c", "k">>
    ELSE <<"n", "o", "t", " ", "a", " ", "f", "u", "n", "c", "t", "i", "o", "n">>

Resolved(status) ==
    [kind |-> "resolve", status |-> status, error |-> "none", message |-> <<>>]

Rejected(error, message) ==
    [kind |-> "reject", status |-> 0, error |-> error, message |-> message]

\* how the browser's own fetch may settle
FetchOutcomes ==
    {Resolved(200), Resolved(404), Rejected("NetworkError", FailedToFetch)}

\* response.ok
Ok(status) == status >= 200 /\ status < 300

\* the .then / .catch pair one wrapper has put on the promise it got from the
\* layer below: given how that promise settled, the records it adds and how
\* its own promise settles
WrapperSettle(m, url, out) ==
    LET thenM == addLog(m, "FETCH", FetchDoneMessage(out.status, url),
                        IF Ok(out.status) THEN colors.INFO ELSE colors.ERROR,
                        "null", 0)
        \* what reaches .catch: the original rejection, or what .then threw
        caught == IF out.kind = "reject"
                  THEN out
                  ELSE Rejected(thenM.threw, ErrorText(thenM.threw))
        from == IF out.kind = "reject" THEN m ELSE [thenM EXCEPT !.threw = "none"]
        catchM == addLog(from, "ERROR", FetchErrorMessage(caught.message),
                         colors.ERROR, "null", 0)
    IN IF out.kind = "resolve" /\ thenM.threw = "none"
       THEN [m |-> thenM, out |-> out]
       ELSE IF catchM.threw = "none"
       THEN [m |-> catchM, out |-> caught]
       ELSE [m |-> [catchM EXCEPT !.threw = "none"],
             out |-> Rejected(catchM.threw, ErrorText(catchM.threw))]

\* the wrappers of one call, innermost first
RECURSIVE SettleFetch(_, _, _, _)
SettleFetch(m, url, out, layers) ==
    IF layers = 0
    THEN [m |-> m, out |-> out]
    ELSE LET r == WrapperSettle(m, url, out)
         IN SettleFetch(r.m, url, r.out, layers - 1)

\* the host application calls fetch(url)
FetchCall ==
    LET req == [api |-> "fetch", method |-> MethodGet, url |-> AppUrl,
                body |-> <<>>]
        m == GlobalFetch(Machine, req, fetchLayers, 0)
    IN /\ now < MaxNow
       /\ Len(inflight) < MaxInflight
       /\ Commit(m)
       /\ inflight' = IF m.threw = "none"
                      THEN Append(inflight, [api |-> "fetch", url |-> AppUrl,
                                             layers |-> fetchLayers,
                                             logged |-> m.now - now,
                                             at |-> now])
                      ELSE inflight
       /\ last' = Observe("fetch", req, m, NoEvent)
       /\ UNCHANGED <<sessionId, page>>

Remove(seq, i) == SubSeq(seq, 1, i - 1) \o SubSeq(seq, i + 1, Len(seq))

\* a pending fetch settles: the handlers of its wrappers run, then the host
\* application's promise settles with `result`
FetchSettle ==
    \E i \in 1..Len(inflight), out \in FetchOutcomes :
        LET call == inflight[i]
            r == SettleFetch(Machine, call.url, out, call.layers)
        IN /\ call.api = "fetch"
           /\ Commit(r.m)
           /\ inflight' = Remove(inflight, i)
           /\ last' = Observe("fetch-settled",
                              [call |-> call, original |-> out], r.m, r.out)
           /\ UNCHANGED <<sessionId, page>>

\* `>> ${this._debugMethod} ${this._debugUrl}`
XhrInitMessage(method, url) == <<">", ">", " ">> \o method \o <<" ">> \o url

\* `XHR error: ${this._debugUrl}`
XhrErrorMessage(url) ==
    <<"X", "H", "R", " ", "e", "r", "r", "o", "r", ":", " ">> \o url

\* the send wrappers, outermost first; then the browser's own send
RECURSIVE XhrSend(_, _, _, _)
XhrSend(m, method, url, layer) ==
    IF layer = 0
    THEN [m EXCEPT !.net = Append(@, [api |-> "xhr.send", method |-> method,
                                      url |-> url, body |-> <<>>])]
    ELSE LET m1 == addLog(m, "XHR", XhrInitMessage(method, url), colors.FETCH,
                          "null", 0)
         IN IF m1.threw # "none" THEN m1 ELSE XhrSend(m1, method, url, layer - 1)

\* the open wrappers only note method and url and delegate
XhrOpen(m, method, url) ==
    [m EXCEPT !.net = Append(@, [api |-> "xhr.open", method |-> method,
                                 url |-> url, body |-> <<>>])]

\* the host application does xhr.open('GET', url); xhr.send()
XhrCall ==
    LET m == XhrSend(XhrOpen(Machine, MethodGet, AppUrl), MethodGet, AppUrl,
                     xhrLayers)
    IN /\ globals.xhr
       /\ now < MaxNow
       /\ Len(inflight) < MaxInflight
       /\ Commit(m)
       /\ inflight' = IF m.threw = "none"
                      THEN Append(inflight, [api |-> "xhr", url |-> AppUrl,
                                             layers |-> xhrLayers,
                                             logged |-> m.now - now,
                                             at |-> now])
                      ELSE inflight
       /\ last' = Observe("xhr", [method |-> MethodGet, url |-> AppUrl], m,
                          NoEvent)
       /\ UNCHANGED <<sessionId, page>>

\* the load / error listeners the send wrappers added to the request
XhrLoadLogs(status, url) ==
    <<LogCall("XHR", FetchDoneMessage(status, url),
              IF Ok(status) THEN colors.INFO ELSE colors.ERROR)>>

XhrErrorLogs(url) == <<LogCall("ERROR", XhrErrorMessage(url), colors.ERROR)>>

XhrOutcomes == {Resolved(200), Resolved(500), Rejected("NetworkError", <<>>)}

XhrSettle ==
    \E i \in 1..Len(inflight), out \in XhrOutcomes :
        LET call == inflight[i]
            m == Dispatch(Machine, call.layers,
                          IF out.kind = "resolve"
                          THEN XhrLoadLogs(out.status, call.url)
                          ELSE XhrErrorLogs(call.url))
        IN /\ call.api = "xhr"
           /\ Commit(m)
           /\ inflight' = Remove(inflight, i)
           /\ last' = Observe("xhr-settled",
                              [call |-> call, original |-> out], m, out)
           /\ UNCHANGED <<sessionId, page>>

\* a pending request ends by abort or by timeout: the send wrappers listen to
\* 'load' and 'error' only, so none of their listeners runs
XhrEndings == {"abort", "timeout"}

XhrAbandon ==
    \E i \in 1..Len(inflight), ending \in XhrEndings :
        LET call == inflight[i]
        IN /\ call.api = "xhr"
           /\ Commit(Machine)
           /\ inflight' = Remove(inflight, i)
           /\ last' = Observe("xhr-settled",
                              [call |-> call,
                               original |-> [kind |-> ending]],
                              Machine, [kind |-> ending])
           /\ UNCHANGED <<sessionId, page>>

\* a pending request loads, and the host application opens and sends the same
\* XMLHttpRequest object again: the listeners of the earlier send stay on the
\* object and the send wrappers add theirs once more
XhrLoadAndResend ==
    \E i \in 1..Len(inflight) :
        LET call == inflight[i]
            out == Resolved(200)
            m1 == Dispatch(Machine, call.layers,
                           XhrLoadLogs(out.status, call.url))
            m == XhrSend(XhrOpen(m1, MethodGet, call.url), MethodGet,
                         call.url, xhrLayers)
        IN /\ call.api = "xhr"
           /\ now < MaxNow
           /\ Commit(m)
           /\ inflight' =
                IF m.threw = "none"
                THEN [inflight EXCEPT ![i] =
                         [call EXCEPT !.layers = @ + xhrLayers,
                                      !.logged = m.now - m1.now,
                                      !.at = m1.now]]
                ELSE Remove(inflight, i)
           /\ last' = Observe("xhr-resent",
                              [call |-> call, original |-> out], m, out)
           /\ UNCHANGED <<sessionId, page>>

(***************************************************************************)
(* Specifications.  Each one lets the environment use one family of        *)
(* operations, always with init.                                           *)
(***************************************************************************)
NextBuffer == init \/ Reload \/ CustomLog \/ ClearClick \/ toggle \/ exportLogs

SpecBuffer == Init /\ [][NextBuffer]_vars

\* the pages whose forms are typed into: one that persists, one that loads
\* htmx, one that sends to a refused endpoint
InputPages ==
    { pg \in Pages :
        \/ pg.htmx
        \/ pg.options.val.persistLogs /\ pg.options.val.maxEntries = 3
        \/ pg.options.val.serverEndpoint = CrossOriginEndpoint }

InitInput == Init /\ page \in InputPages

NextInput == init \/ InputEvent \/ HtmxConfigRequest

SpecInput == InitInput /\ [][NextInput]_vars

NextNet == init \/ FetchCall \/ FetchSettle \/ XhrCall \/ XhrSettle

SpecNet == Init /\ [][NextNet]_vars

\* the pages that run the default configuration of the sinks: their init
\* options name neither persistLogs nor sendToServer
EventPages ==
    {pg \in Pages : pg.options.keys \cap {"persistLogs", "sendToServer"} = {}}

InitEvents == Init /\ page \in EventPages

\* a page in use: the user types, htmx configures requests, the host
\* application calls the network
NextEvents ==
    \/ init \/ InputEvent \/ HtmxConfigRequest
    \/ FetchCall \/ FetchSettle \/ XhrCall \/ XhrSettle

SpecEvents == InitEvents /\ [][NextEvents]_vars

\* a page that leaves the sinks at their defaults: the host logs and calls
\* fetch, the user shows and hides the panel
NextLocal == init \/ CustomLog \/ toggle \/ FetchCall \/ FetchSettle

SpecLocal == InitEvents /\ [][NextLocal]_vars

\* a record that an earlier session of the page has left in localStorage
OldRecord ==
    [timestamp |-> 0, sessionId |-> <<"k", "0">>, type |-> "INFO",
     message |-> <<"X">>, color |-> colors.INFO, details |-> DetailNull]

\* what may be found under 'live-debugger-logs' when the page is loaded:
\* nothing, an array of records, a text that does not parse, or JSON that is
\* no array (null, {}, 5, "x")
StoredKinds ==
    {"absent", "array", "unparseable", "null", "object", "number", "string"}

StoredValues ==
    {[kind |-> k, items |-> IF k = "array" THEN <<OldRecord>> ELSE <<>>] :
        k \in StoredKinds}

\* the pages that persist their log
StorePages ==
    {pg \in Pages : pg.options.val.persistLogs /\ ~pg.options.val.sendToServer}

\* the script is loaded on a page that persists, with a localStorage that
\* earlier sessions have written and that may have reached its quota
InitStore ==
    /\ storage \in [enabled : {"absent"}, logs : StoredValues, full : BOOLEAN]
    /\ config = DefaultConfig(storage)
    /\ entries = <<>>
    /\ entriesType = "array"
    /\ sessionId = FirstSession
    /\ logContainer = FALSE
    /\ panelDisplay = "absent"
    /\ globals = AllGlobals
    /\ errorListeners = 0
    /\ listeners = 0
    /\ htmxListeners = 0
    /\ fetchLayers = 0
    /\ xhrLayers = 0
    /\ now = 0
    /\ inflight = <<>>
    /\ page \in StorePages
    /\ base = <<>>
    /\ captured = <<>>
    /\ last = Loaded

NextStore == init \/ DetailLog \/ ClearClick

SpecStore == InitStore /\ [][NextStore]_vars

\* host pages that pass a capacity below 1
InvalidPages ==
    [options : {Options({"maxEntries"}, 0, FALSE, FALSE, DefaultEndpoint),
                Options({"maxEntries"}, -1, FALSE, FALSE, DefaultEndpoint)},
     htmx : {FALSE}]

InitConfig ==
    /\ storage = [enabled |-> "absent", logs |-> NoLogs, full |-> FALSE]
    /\ config = DefaultConfig(storage)
    /\ entries = <<>>
    /\ entriesType = "array"
    /\ sessionId = FirstSession
    /\ logContainer = FALSE
    /\ panelDisplay = "absent"
    /\ globals = AllGlobals
    /\ errorListeners = 0
    /\ listeners = 0
    /\ htmxListeners = 0
    /\ fetchLayers = 0
    /\ xhrLayers = 0
    /\ now = 0
    /\ inflight = <<>>
    /\ page \in InvalidPages
    /\ base = <<>>
    /\ captured = <<>>
    /\ last = Loaded

NextConfig == init \/ CustomLog \/ ClearClick \/ exportLogs

SpecConfig == InitConfig /\ [][NextConfig]_vars

\* clicks, typing, submits and key presses on a page without persistence or
\* upload
NextDom == init \/ ClickEvent \/ InputEvent \/ SubmitEvent \/ KeydownEvent

SpecDom == InitEvents /\ [][NextDom]_vars

\* key presses on every page
NextKeys == init \/ KeydownEvent

SpecKeys == Init /\ [][NextKeys]_vars

\* toggling and page loads: pages whose init passes no options, a capacity,
\* or enabled: true
TogglePages ==
    [options : {NoOptions,
                Options({"maxEntries"}, 2, FALSE, FALSE, DefaultEndpoint),
                [Options({"enabled"}, DefaultMaxEntries, FALSE, FALSE,
                         DefaultEndpoint) EXCEPT !.val.enabled = TRUE]},
     htmx : {FALSE}]

InitToggle ==
    /\ storage = [enabled |-> "absent", logs |-> NoLogs, full |-> FALSE]
    /\ config = DefaultConfig(storage)
    /\ entries = <<>>
    /\ entriesType = "array"
    /\ sessionId = FirstSession
    /\ logContainer = FALSE
    /\ panelDisplay = "absent"
    /\ globals = AllGlobals
    /\ errorListeners = 0
    /\ listeners = 0
    /\ htmxListeners = 0
    /\ fetchLayers = 0
    /\ xhrLayers = 0
    /\ now = 0
    /\ inflight = <<>>
    /\ page \in TogglePages
    /\ base = <<>>
    /\ captured = <<>>
    /\ last = Loaded

ReloadToggle == LoadPage(TogglePages)

NextToggle == init \/ ReloadToggle \/ toggle

SpecToggle == InitToggle /\ [][NextToggle]_vars

\* pages that keep the log in localStorage, one of them with upload
PersistPages == {p \in Pages : p.options.val.persistLogs}

InitPersist == Init /\ page \in PersistPages

NextPersist == init \/ DetailLog \/ ClearClick \/ toggle

SpecPersist == InitPersist /\ [][NextPersist]_vars

\* XMLHttpRequest traffic of a page without persistence or upload
NextXhr == init \/ XhrCall \/ XhrSettle \/ XhrAbandon \/ XhrLoadAndResend

SpecXhr == InitEvents /\ [][NextXhr]_vars

(***************************************************************************)
(* The earlier build, src/live-debugger/debugger.js.  Its object keeps the *)
(* panel's log element in the property `log`, which is also the name of    *)
(* its logging method: after injectHTML the property holds the element.    *)
(* logContainer tells whether the element has been assigned.               *)
(***************************************************************************)
MaxInits == 2

\* typeof this.log === 'function'
LogIsMethod(m) == ~m.logContainer

\* JSON.stringify(this.entries) of records whose fields are strings
legacyPersistLogs(m) ==
    IF m.storage.full
    THEN [m EXCEPT !.diag = Append(@, "failed-to-persist")]
    ELSE [m EXCEPT !.storage.logs = [kind |-> "array", items |-> m.entries]]

RECURSIVE log(_, _, _, _), legacyFetch(_, _, _)

\* sendToServer(entry) of the earlier build: no test of the endpoint's origin
legacySendToServer(m, entry) ==
    IF m.config.serverEndpoint = <<>>
    THEN m
    ELSE legacyFetch(m, [api |-> "fetch", method |-> "POST",
                         url |-> m.config.serverEndpoint, body |-> <<entry>>],
                     m.fetchLayers)

\* log(type, message, color): a call of the property `log`
log(m, type, message, color) ==
    LET entry == [timestamp |-> m.now + 1, sessionId |-> m.sessionId,
                  type |-> type, message |-> message, color |-> color]
        m1 == [m EXCEPT !.entries = Limit(Append(m.entries, entry),
                                          m.config.maxEntries),
                        !.now = @ + 1,
                        !.captured = Append(@, [entry |-> entry,
                                                cap |-> m.config.maxEntries])]
        m2 == IF m1.config.persistLogs THEN legacyPersistLogs(m1) ELSE m1
        m3 == IF m2.config.sendToServer THEN legacySendToServer(m2, entry)
              ELSE m2
    IN IF ~LogIsMethod(m)
       THEN [m EXCEPT !.threw = "TypeError"]    \* this.log is not a function
       ELSE IF m3.threw # "none"
       THEN m3
       ELSE [m3 EXCEPT !.threw = "TypeError"]   \* this.log.appendChild

\* window.fetch of the earlier build, entered at wrapper number `layer`
legacyFetch(m, req, layer) ==
    IF layer = 0
    THEN [m EXCEPT !.net = Append(@, req)]
    ELSE LET m1 == log(m, "FETCH", FetchInitMessage(req.url), colors.FETCH)
         IN IF m1.threw # "none"
            THEN m1
            ELSE legacyFetch(m1, req, layer - 1)

\* init(options) of the earlier build: merge, injectHTML (this.log = the
\* element), setupListeners, restoreLogs, this.log('INIT', ...)
legacyInitCall(m, options, htmx) ==
    LET m1 == [m EXCEPT !.config = MergeOptions(m.config, options),
                        !.logContainer = TRUE,
                        !.panelDisplay =
                            Display(MergeOptions(m.config, options).enabled),
                        !.listeners = @ + 1,
                        !.htmxListeners = IF htmx THEN @ + 1 ELSE @,
                        !.fetchLayers = @ + 1,
                        !.xhrLayers = @ + 1,
                        !.errorListeners = @ + 1]
        m2 == IF m1.config.persistLogs THEN restoreLogs(m1) ELSE m1
    IN log(m2, "INIT", InitMessage(m2.sessionId), colors.INIT)

legacyInit ==
    \E options \in {NoOptions, page.options} :
        LET m == legacyInitCall(Machine, options, page.htmx)
        IN /\ listeners < MaxInits
           /\ Commit(m)
           /\ last' = Observe("init", [kind |-> "init", options |-> options],
                              m, NoEvent)
           /\ UNCHANGED <<sessionId, inflight, page>>

\* the documented custom logging call: LiveDebugger.log(type, message, color)
legacyLog ==
    \E msg \in CustomMessages :
        LET m == log(Machine, "INFO", msg, colors.INFO)
        IN /\ now < MaxNow
           /\ Commit(m)
           /\ last' = Observe("log", LogCall("INFO", msg, colors.INFO),
                              m, NoEvent)
           /\ UNCHANGED <<sessionId, inflight, page>>

\* exportLogs() of the earlier build: the document, then this.log('INFO', ...)
legacyExportDocument(m) ==
    [sessionId |-> m.sessionId, exportedAt |-> m.now, userAgent |-> UserAgent,
     url |-> Href, entries |-> m.entries]

legacyExportLogs ==
    LET m == log(Machine, "INFO", ExportedMessage(Len(entries)), colors.INFO)
    IN /\ now < MaxNow
       /\ Commit(m)
       /\ last' = Observe("export", NoEvent, m, legacyExportDocument(Machine))
       /\ UNCHANGED <<sessionId, inflight, page>>

NextLegacy == legacyInit \/ legacyLog \/ legacyExportLogs

SpecLegacy == Init /\ [][NextLegacy]_vars

\* ---- browsers without window.fetch or without XMLHttpRequest ----

GlobalsOfBrowsers == [fetch : BOOLEAN, xhr : BOOLEAN]

InitGlobals ==
    /\ storage = [enabled |-> "absent", logs |-> NoLogs, full |-> FALSE]
    /\ config = DefaultConfig(storage)
    /\ entries = <<>>
    /\ entriesType = "array"
    /\ sessionId = FirstSession
    /\ logContainer = FALSE
    /\ panelDisplay = "absent"
    /\ globals \in GlobalsOfBrowsers
    /\ errorListeners = 0
    /\ listeners = 0
    /\ htmxListeners = 0
    /\ fetchLayers = 0
    /\ xhrLayers = 0
    /\ now = 0
    /\ inflight = <<>>
    /\ page \in EventPages
    /\ base = <<>>
    /\ captured = <<>>
    /\ last = Loaded

\* init() called at most MaxInits times (a throwing init advances no clock)
initBounded == listeners < MaxInits /\ init

NextGlobals == initBounded \/ FetchCall \/ FetchSettle

SpecGlobals == InitGlobals /\ [][NextGlobals]_vars

\* ---- the htmx:afterRequest listener ----

\* responseText.substring(0, 200)
PreviewCap == 200

AfterRequestMessage(status, url, responseLength) ==
    Digits(status) \o <<" ", "f", "r", "o", "m", " ">> \o url \o <<" ",
          "(">> \o Digits(responseLength)
      \o <<" ", "b", "y", "t", "e", "s", ")">>

AfterRequestLogs(detail) ==
    LET status == detail.status
        statusColor == IF status >= 200 /\ status < 300
                       THEN colors.INFO ELSE colors.ERROR
        url == IF detail.pathInfo THEN detail.requestPath ELSE <<"u", "n",
              "k", "n", "o", "w", "n">>
    IN <<LogCall("HTMX",
                 AfterRequestMessage(status, url, Len(detail.responseText)),
                 statusColor)>>
         \o IF status >= 400
            THEN <<LogCall("ERROR", Substring0(detail.responseText,
                  PreviewCap),
                           colors.ERROR)>>
            ELSE <<>>

LongBody == [i \in 1..(PreviewCap + 1) |-> "e"]

Response(status, responseText, pathInfo) ==
    [status |-> status, responseText |-> responseText, pathInfo |-> pathInfo,
     requestPath |-> <<"/", "s">>]

\* the responses htmx reports: successes, a network failure (status 0), a
\* not-modified answer, client and server errors
AfterRequestDetails ==
    { Response(200, <<"o", "k">>, TRUE), Response(204, <<>>, TRUE),
      Response(0, <<>>, FALSE), Response(304, <<>>, TRUE),
      Response(404, <<"n", "o">>, TRUE), Response(500, LongBody, TRUE) }

\* dispatched on document.body (by htmx, or by any script of the page)
HtmxAfterRequest ==
    \E detail \in AfterRequestDetails :
        LET m == Dispatch(Machine, htmxListeners, AfterRequestLogs(detail))
        IN /\ now < MaxNow
           /\ Commit(m)
           /\ last' = Observe("htmx:afterRequest", detail, m, NoEvent)
           /\ UNCHANGED <<sessionId, inflight, page>>

HtmxPages == {pg \in EventPages : pg.htmx \/ pg.options.keys = {}}

InitHtmx == Init /\ page \in HtmxPages

NextHtmx == init \/ HtmxAfterRequest

SpecHtmx == InitHtmx /\ [][NextHtmx]_vars

\* ---- init over a stored array of records ----

OlderRecord ==
    [timestamp |-> 0, sessionId |-> <<"k", "0">>, type |-> "CLICK",
     message |-> <<"W">>, color |-> colors.CLICK, details |-> DetailNull]

\* what an earlier page load left under the log key
StoredArrays ==
    {NoLogs} \cup {[kind |-> "array", items |-> s] :
                     s \in {<<>>, <<OldRecord>>, <<OlderRecord, OldRecord>>}}

InitRestore ==
    /\ storage \in [enabled : {"absent"}, logs : StoredArrays, full : {FALSE}]
    /\ config = DefaultConfig(storage)
    /\ entries = <<>>
    /\ entriesType = "array"
    /\ sessionId = FirstSession
    /\ logContainer = FALSE
    /\ panelDisplay = "absent"
    /\ globals = AllGlobals
    /\ errorListeners = 0
    /\ listeners = 0
    /\ htmxListeners = 0
    /\ fetchLayers = 0
    /\ xhrLayers = 0
    /\ now = 0
    /\ inflight = <<>>
    /\ page \in Pages
    /\ base = <<>>
    /\ captured = <<>>
    /\ last = Loaded

NextRestore == init \/ DetailLog \/ ClearClick

SpecRestore == InitRestore /\ [][NextRestore]_vars

\* ---- sendToServer and the origin of its endpoint ----

ProtocolRelativeEndpoint == <<"/", "/", "o", "t", "h", "e", "r", "-", "h",
      "o", "s", "t", "/", "p", "a", "t", "h">>

\* the URL the browser requests for fetch(endpoint) on the page: an endpoint
\* "//host/path" takes the page's scheme, a path takes the page's origin
Resolve(endpoint) ==
    IF StartsWith(endpoint, <<"/", "/">>) THEN <<"h", "t", "t", "p", "s",
          ":">> \o endpoint
    ELSE IF IsAbsolute(endpoint) THEN endpoint
    ELSE PageOrigin \o endpoint

ResolvesElsewhere(endpoint) == AbsoluteOrigin(Resolve(endpoint)) # PageOrigin

Endpoints ==
    {DefaultEndpoint, SameOriginEndpoint, CrossOriginEndpoint,
     LookalikeEndpoint, ProtocolRelativeEndpoint}

\* pages that configure an endpoint, with and without the automatic upload
EndpointPages ==
    [options : {Options({"sendToServer", "serverEndpoint"}, DefaultMaxEntries,
                        FALSE, send, e) : send \in BOOLEAN, e \in Endpoints},
     htmx : {FALSE}]

InitEndpoint ==
    /\ storage = [enabled |-> "absent", logs |-> NoLogs, full |-> FALSE]
    /\ config = DefaultConfig(storage)
    /\ entries = <<>>
    /\ entriesType = "array"
    /\ sessionId = FirstSession
    /\ logContainer = FALSE
    /\ panelDisplay = "absent"
    /\ globals = AllGlobals
    /\ errorListeners = 0
    /\ listeners = 0
    /\ htmxListeners = 0
    /\ fetchLayers = 0
    /\ xhrLayers = 0
    /\ now = 0
    /\ inflight = <<>>
    /\ page \in EndpointPages
    /\ base = <<>>
    /\ captured = <<>>
    /\ last = Loaded

\* the page calls LiveDebugger.sendToServer(entry) itself
SendToServerCall ==
    LET m == sendToServer(Machine, OldRecord, 0)
    IN /\ now < MaxNow
       /\ Len(inflight) < MaxInflight
       /\ Commit(m)
       /\ inflight' = IF m.threw = "none" /\ m.net # <<>>
                      THEN Append(inflight,
                                  [api |-> "upload",
                                   url |-> config.serverEndpoint,
                                   layers |-> fetchLayers,
                                   logged |-> m.now - now, at |-> now])
                      ELSE inflight
       /\ last' = Observe("sendToServer", [kind |-> "upload"], m, NoEvent)
       /\ UNCHANGED <<sessionId, page>>

\* the POST of sendToServer settles: the handlers of the wrappers run, then
\* sendToServer's own .catch
UploadSettle ==
    \E i \in 1..Len(inflight), out \in FetchOutcomes :
        LET call == inflight[i]
            r == SettleFetch(Machine, call.url, out, call.layers)
            m == IF r.out.kind = "reject"
                 THEN [r.m EXCEPT !.diag = Append(@, "failed-to-send")]
                 ELSE r.m
        IN /\ call.api = "upload"
           /\ Commit(m)
           /\ inflight' = Remove(inflight, i)
           /\ last' = Observe("upload-settled",
                              [call |-> call, original |-> out], m, NoEvent)
           /\ UNCHANGED <<sessionId, page>>

NextEndpoint == init \/ SendToServerCall \/ UploadSettle

SpecEndpoint == InitEndpoint /\ [][NextEndpoint]_vars

\* ---- capture while the panel is hidden ----

NextHidden == init \/ toggle \/ DetailLog \/ FetchCall

SpecHidden == Init /\ [][NextHidden]_vars

Next ==
    \/ init \/ Reload \/ CustomLog \/ DetailLog \/ ClearClick \/ toggle
    \/ exportLogs
    \/ InputEvent \/ HtmxConfigRequest
    \/ FetchCall \/ FetchSettle \/ XhrCall \/ XhrSettle

Spec == Init /\ [][Next]_vars

(***************************************************************************)
(* Properties.                                                             *)
(***************************************************************************)
Range(seq) == {seq[i] : i \in 1..Len(seq)}

LastN(seq, n) ==
    IF Len(seq) > n THEN SubSeq(seq, Len(seq) - n + 1, Len(seq)) ELSE seq

CapturedEntries == [i \in 1..Len(captured) |-> captured[i].entry]

\* the records the last operation constructed
NewRecords == {r \in Range(CapturedEntries) : r.timestamp > last.since}

\* every record that is held somewhere: the buffer, the stored log, the
\* bodies handed to the network
HeldRecords ==
    Range(entries) \cup Range(storage.logs.items)
      \cup UNION {Range(last.net[i].body) : i \in 1..Len(last.net)}

\* C1: in every reachable state the buffer holds at most config.maxEntries
\* records, also after restoreLogs has loaded a longer persisted array.
C1_BufferWithinMaxEntries == Len(entries) <= config.maxEntries

\* C2: starting from an empty buffer and with maxEntries = c >= 1 throughout,
\* the buffer is exactly the last c records captured, in capture order.
C2_BufferIsLastRecords ==
    ( /\ base = <<>>
      /\ config.maxEntries >= 1
      /\ \A i \in 1..Len(captured) : captured[i].cap = config.maxEntries )
    => entries = LastN(CapturedEntries, config.maxEntries)

\* C2 witness: capacity 3 and four records A, B, C, D captured: [B, C, D].
C2_Witness ==
    /\ base = <<>>
    /\ config.maxEntries = 3
    /\ Len(captured) = 4
    /\ \A i \in 1..4 : captured[i].cap = 3
    /\ entries = SubSeq(CapturedEntries, 2, 4)

\* the raw values of the sensitive fields that the last event carried
SensitiveValues ==
    IF last.op = "input"
    THEN IF \/ last.ev.type = PasswordType
            \/ sensitivePatterns(last.ev.id)
            \/ sensitivePatterns(last.ev.name)
         THEN {last.ev.value}
         ELSE {}
    ELSE IF last.op = "htmx:configRequest"
    THEN {last.ev.parameters[i].value :
            i \in {j \in 1..Len(last.ev.parameters) :
                     sensitivePatterns(last.ev.parameters[j].name)}}
    ELSE {}

\* C3: no record in the buffer, in localStorage or handed to sendToServer
\* contains the raw value of a sensitive field, whichever listener captured
\* it (input listener, htmx:configRequest listener).
C3_NoRawSensitiveValue ==
    \A secret \in SensitiveValues :
        \A r \in HeldRecords \cup NewRecords :
            r.timestamp > last.since => ~Contains(r.message, secret)

\* an input event that the input listener records
RecordedInput ==
    /\ last.op = "input"
    /\ ~last.ev.inPanel
    /\ Lower(last.ev.tag) \in {<<"i", "n", "p", "u", "t">>,
                                <<"t", "e", "x", "t", "a", "r", "e", "a">>}

NewInputRecords == {r \in NewRecords : r.type = "INPUT"}

CarriesMask ==
    /\ NewInputRecords # {}
    /\ \A r \in NewInputRecords :
          /\ r.message = InputMessage(FieldId(last.ev), MASKED)
          /\ ~Contains(r.message, last.ev.value)

\* C4: an input event on a field whose name or id matches the sensitive
\* pattern set gives an INPUT record with [MASKED] and never the value, for
\* every combination of id and name.
C4_SensitiveNameOrIdMasked ==
    ( /\ RecordedInput
      /\ sensitivePatterns(last.ev.id) \/ sensitivePatterns(last.ev.name) )
    => CarriesMask

\* C5: an input event on an element of type password gives an INPUT record
\* with [MASKED] and never the value, also when neither id nor name matches.
C5_PasswordTypeMasked ==
    (RecordedInput /\ last.ev.type = PasswordType) => CarriesMask

\* C5 witness: a password-typed field named "q" was typed into and recorded.
C5_Witness ==
    /\ RecordedInput
    /\ last.ev.type = PasswordType
    /\ ~sensitivePatterns(last.ev.id)
    /\ ~sensitivePatterns(last.ev.name)
    /\ \E r \in Range(entries) :
          r \in NewInputRecords /\ r.message = InputMessage(<<"q">>, MASKED)

\* C6: when sendToServer runs with an absolute endpoint of another origin, no
\* network call is made, a diagnostic is emitted, and the record stays in the
\* buffer.
C6_CrossOriginRefused ==
    ( /\ now > last.since
      /\ config.sendToServer
      /\ CrossOrigin(config.serverEndpoint) )
    => /\ \A i \in 1..Len(last.net) : last.net[i].url # config.serverEndpoint
       /\ "blocked-cross-origin" \in Range(last.diag)
       /\ \A r \in NewRecords : r \in Range(LastN(CapturedEntries, config.maxEntries))
                                  => r \in Range(entries)
       /\ NewRecords \cap Range(entries) # {}

\* the completion record the fetch wrapper adds for an outcome
IsCompletion(r, url, out) ==
    IF out.kind = "resolve"
    THEN /\ r.type = "FETCH"
         /\ r.message = FetchDoneMessage(out.status, url)
    ELSE /\ r.type = "ERROR"
         /\ r.message = FetchErrorMessage(out.message)

\* C7: after init, a call of the wrapped fetch appends one "initiated" FETCH
\* record and the original fetch is invoked; when the call settles, exactly
\* one completion record is appended (FETCH with the status, or ERROR).
C7_OneInitiatedOneCompleted ==
    /\ (last.op = "fetch" /\ fetchLayers >= 1)
         => /\ now - last.since = 1
            /\ \A r \in NewRecords :
                  r.type = "FETCH" /\ r.message = FetchInitMessage(last.ev.url)
            /\ last.net = <<last.ev>>
    /\ (last.op = "fetch-settled" /\ last.ev.call.layers >= 1)
         => /\ now - last.since = 1
            /\ \A r \in NewRecords :
                  IsCompletion(r, last.ev.call.url, last.ev.original)

\* C8: a wrapped fetch call that resolves with status s produces exactly two
\* records, the initiated one and a completed one that carries s, coloured as
\* an error when the response is not ok and as info when it is.
C8_ResolvedCallTwoRecords ==
    ( /\ last.op = "fetch-settled"
      /\ last.ev.call.layers >= 1
      /\ last.ev.original.kind = "resolve" )
    => /\ last.ev.call.logged + (now - last.since) = 2
       /\ \A r \in NewRecords :
             /\ IsCompletion(r, last.ev.call.url, last.ev.original)
             /\ r.color = IF Ok(last.ev.original.status)
                          THEN colors.INFO
                          ELSE colors.ERROR

\* C9: the wrappers are transparent: the original fetch / open / send is
\* invoked exactly once with the caller's arguments, and the wrapped fetch's
\* promise settles as the original did, also after init was called twice.
C9_WrappersTransparent ==
    /\ last.op = "fetch" => last.net = <<last.ev>>
    /\ last.op = "xhr"
         => last.net = << [api |-> "xhr.open", method |-> last.ev.method,
                           url |-> last.ev.url, body |-> <<>>],
                          [api |-> "xhr.send", method |-> last.ev.method,
                           url |-> last.ev.url, body |-> <<>>] >>
    /\ last.op = "fetch-settled" => last.result = last.ev.original

\* C10: a call of the wrapped fetch or XMLHttpRequest.send never raises an
\* exception of the debugger's: if logging fails, the original call still
\* proceeds.
C10_WrapperNeverThrows ==
    last.op \in {"fetch", "xhr"}
      => /\ last.threw = "none"
         /\ \E i \in 1..Len(last.net) : last.net[i].api \in {"fetch", "xhr.send"}

\* C11: installing the interceptors is idempotent: whatever the number of
\* init calls, one input or htmx event gives the records of one listener, and
\* one fetch or XHR call gives one initiated and one completed record.
C11_InstallIdempotent ==
    /\ RecordedInput => Cardinality(NewInputRecords) = 1
    /\ last.op = "htmx:configRequest" => now - last.since = 1
    /\ (last.op \in {"fetch", "xhr"} /\ fetchLayers >= 1) => now - last.since = 1
    /\ (last.op \in {"fetch-settled", "xhr-settled"} /\ last.ev.call.layers >= 1)
         => now - last.since = 1

\* what identifies a record: when it was captured, by whom, what it says
Keys(seq) ==
    [i \in 1..Len(seq) |->
        [timestamp |-> seq[i].timestamp, sessionId |-> seq[i].sessionId,
         type |-> seq[i].type, message |-> seq[i].message]]

\* this step is a call of init that directly follows a call of init with the
\* same options, which returned normally
SecondInitStep ==
    /\ last.op = "init"
    /\ last.threw = "none"
    /\ last'.op = "init"
    /\ last' # last
    /\ last'.ev.options = last.ev.options

\* C12: a second init with the same options keeps the one buffer: it neither
\* drops, duplicates nor reorders the records captured so far, it only
\* appends its own INIT record (within the configured capacity).
C12_SecondInitKeepsBuffer ==
    [][ SecondInitStep
          => /\ entriesType' = "array"
             /\ Len(entries') >= 1
             /\ entries'[Len(entries')].type = "INIT"
             /\ Keys(entries')
                  = Keys(Limit(Append(entries, entries'[Len(entries')]),
                               config'.maxEntries)) ]_vars

\* C13: with sendToServer on and a same-origin endpoint, every record an
\* operation captures causes exactly one POST whose body is that record, and
\* nothing else is sent (no record of an earlier capture is sent again).
C13_OnePostPerRecord ==
    ( /\ config.sendToServer
      /\ EndpointAllowed(config.serverEndpoint)
      /\ ~CrossOrigin(config.serverEndpoint)
      /\ now > last.since )
    => /\ \A i \in 1..Len(last.net) :
             last.net[i].api = "fetch"
               => /\ last.net[i].method = "POST"
                  /\ last.net[i].url = config.serverEndpoint
                  /\ Len(last.net[i].body) = 1
                  /\ last.net[i].body[1] \in NewRecords
       /\ \A r \in NewRecords :
             Cardinality({i \in 1..Len(last.net) : last.net[i].body = <<r>>}) = 1

\* the stored values that are no JSON array of records
CorruptKinds == StoredKinds \ {"absent", "array"}

\* this step is a call of init
InitStep == last'.op = "init" /\ last' # last

\* C14: when the log key holds a text that does not parse, or JSON that is no
\* array, the first init with persistLogs returns normally, emits a
\* diagnostic and leaves a buffer that holds the INIT record only, to which
\* later addLog calls can append.
C14_CorruptStorageTolerated ==
    [][ ( /\ InitStep
          /\ config'.persistLogs
          /\ storage.logs.kind \in CorruptKinds
          /\ entries = <<>> )
        => /\ last'.threw = "none"
           /\ "failed-to-restore" \in Range(last'.diag)
           /\ entriesType' = "array"
           /\ Len(entries') = 1
           /\ entries'[1].type = "INIT" ]_vars

\* this step is an init that runs restoreLogs on a text that persistLogs
\* has written from the buffer as it is now
RestoreOfPersisted ==
    /\ InitStep
    /\ config'.persistLogs
    /\ config.persistLogs
    /\ ~storage.full
    /\ entriesType = "array"
    /\ captured # <<>>
    /\ last.threw = "none"

\* C15: round trip: restoreLogs applied to what persistLogs stored yields the
\* buffer that was persisted: same records, same order, same field values.
C15_RoundTrip == [][ RestoreOfPersisted => base' = entries ]_vars

\* the details that are JSON values
JsonDetails == {DetailNull, DetailMapping}

\* C15 as amended: the round trip is exact for every buffer whose records
\* carry details that are JSON values.
C15_RoundTripOfJsonValues ==
    [][ ( /\ RestoreOfPersisted
          /\ \A r \in Range(entries) : r.details \in JsonDetails )
        => base' = entries ]_vars

\* C15 witness: an init has restored a buffer of this session that holds a
\* record with a details mapping.
C15_Witness ==
    /\ last.op = "init"
    /\ config.persistLogs
    /\ Len(base) >= 2
    /\ \E i \in 1..Len(base) :
          base[i].details = DetailMapping /\ base[i].sessionId = sessionId
    /\ SubSeq(entries, 1, Len(base)) = base

\* C16: when an addLog call has appended its record, a failure of the
\* persistence write, of the send or of the rendering neither removes the
\* record from the buffer nor reaches the caller of addLog.
C16_SinkFailureContained ==
    (last.op = "addLog" /\ NewRecords # {})
      => /\ last.threw = "none"
         /\ NewRecords \cap Range(entries) # {}

\* C17: an init that is given a maxEntries below 1 rejects the value: it
\* returns normally and the capacity in force is the default.
C17_InvalidCapacityRejected ==
    ( /\ last.op = "init"
      /\ "maxEntries" \in last.ev.options.keys
      /\ last.ev.options.val.maxEntries < 1 )
    => /\ last.threw = "none"
       /\ config.maxEntries = DefaultMaxEntries

\* this step is a click on the Clear button
ClearStep == last'.op = "clear" /\ last' # last

\* sessionId and the installed interceptors are what they were
InstallationUnchanged ==
    /\ sessionId' = sessionId
    /\ listeners' = listeners
    /\ htmxListeners' = htmxListeners
    /\ fetchLayers' = fetchLayers
    /\ xhrLayers' = xhrLayers

C19_SessionIdConstant ==
    /\ [](\A i \in 1..Len(captured) : captured[i].entry.sessionId = sessionId)
    /\ [][ last'.op # "load" => sessionId' = sessionId ]_vars

\* C19 witness: the buffer holds records restored from an earlier session with
\* another sessionId, and this instance has produced two records of its own.
C19_Witness ==
    /\ \E i \in 1..Len(base) : base[i].sessionId # sessionId
    /\ Len(captured) >= 2
    /\ \A i \in 1..Len(captured) : captured[i].entry.sessionId = sessionId
    /\ \E i \in 1..Len(entries) : entries[i].sessionId # sessionId
    /\ last.threw = "none"

\* C20: with the default configuration (persistLogs false, sendToServer
\* false) the debugger issues no network request to any host and writes no
\* log to localStorage: the only requests are the host application's own.
C20_LocalByDefault ==
    (~config.persistLogs /\ ~config.sendToServer)
      => /\ storage.logs = NoLogs
         /\ \A i \in 1..Len(last.net) :
               last.op = "fetch" /\ last.net[i] = last.ev

\* C21: in the earlier build init() ends by appending the INIT record without
\* throwing, and a later LiveDebugger.log(type, message, color) appends
\* exactly one record with that type, message and colour
C21_LegacyInitAndLog ==
    [][/\ (last'.op = "init" /\ last' # last)
            => /\ last'.threw = "none"
               /\ entries' # <<>>
               /\ entries'[Len(entries')].type = "INIT"
       /\ (last'.op = "log" /\ last' # last /\ logContainer)
            => /\ last'.threw = "none"
               /\ Len(captured') = Len(captured) + 1
               /\ LET e == captured'[Len(captured')].entry
                  IN /\ e.type = last'.ev.type
                     /\ e.message = last'.ev.message
                     /\ e.color = last'.ev.color
                     /\ entries' # <<>>
                     /\ entries'[Len(entries')] = e]_vars

\* the records appended during the step
StepRecords ==
    [i \in 1..(Len(captured') - Len(captured)) |->
        captured'[Len(captured) + i].entry]

\* the event of the step was dispatched on a node of the debug panel
InPanel(l) ==
    CASE l.op \in {"click", "input"} -> l.ev.inPanel
      [] l.op = "keydown" -> l.ev.target.inPanel
      [] OTHER -> FALSE

\* C22: a click, input, submit or keydown whose target lies inside the debug
\* panel appends no record
C22_PanelEventsNotRecorded ==
    [][(last' # last /\ InPanel(last'))
          => captured' = captured /\ entries' = entries]_vars

KeydownStep == last'.op = "keydown" /\ last' # last

\* C23: a keydown appends a KEY record exactly when its key is Enter, Escape
\* or '/'; a keydown of another key appends nothing
C23_KeyRecordIffAllowed ==
    [][KeydownStep
          => IF last'.ev.key \in {KeyEnter, KeyEscape, KeySlash}
             THEN \E i \in DOMAIN StepRecords :
                     /\ StepRecords[i].type = "KEY"
                     /\ StepRecords[i].message = KeyMessage(last'.ev)
             ELSE captured' = captured /\ entries' = entries]_vars

C23_Witness ==
    /\ last.op = "keydown"
    /\ last.ev.key = KeySlash
    /\ entries # <<>>
    /\ entries[Len(entries)].type = "KEY"
    /\ entries[Len(entries)].message = KeyMessage(last.ev)

\* C24: the message of every record in the buffer has at most 200 characters
C24_MessageAtMost200 ==
    \A i \in 1..Len(entries) : Len(entries[i].message) <= 200

ExportStep == last'.op = "export" /\ last' # last

\* C25: the exported document holds the buffer as it is at the call, the
\* instance's sessionId and the page's path as pageUrl, and no userAgent;
\* exportLogs keeps every record in place and then appends one INFO record
\* that states the exported count
C25_ExportDocumentAndRecord ==
    [][ExportStep
          => LET doc == last'.result
             IN /\ doc.entries = entries
                /\ doc.sessionId = sessionId
                /\ "userAgent" \notin DOMAIN doc
                /\ "pageUrl" \in DOMAIN doc
                /\ doc.pageUrl = Pathname
                /\ Len(entries') = Len(entries) + 1
                /\ SubSeq(entries', 1, Len(entries)) = entries
                /\ entries'[Len(entries')].type = "INFO"
                /\ entries'[Len(entries')].message
                     = ExportedMessage(Len(entries))]_vars

ToggleStep == last'.op = "toggle" /\ last' # last

\* the first init after a page load, called without an enabled option
FirstInitWithoutEnabled ==
    /\ InitStep
    /\ listeners = 0
    /\ "enabled" \notin last'.ev.options.keys

\* C26: after a toggle the key live-debugger-enabled holds the string form of
\* config.enabled and the panel's display matches it; a page load followed by
\* init() without an enabled option starts in the state of the last toggle;
\* a toggle that follows a toggle restores the state before the two
C26_EnabledStateRemembered ==
    [][/\ ToggleStep
            => /\ storage'.enabled = BoolString(config'.enabled)
               /\ panelDisplay' \in {"absent", Display(config'.enabled)}
               /\ logContainer => panelDisplay' = Display(config'.enabled)
       /\ (FirstInitWithoutEnabled /\ storage.enabled # "absent")
            => /\ config'.enabled = (storage.enabled = "true")
               /\ panelDisplay' = Display(storage.enabled = "true")
               /\ storage'.enabled = storage.enabled
       /\ (ToggleStep /\ last.op = "toggle")
            => /\ config'.enabled = last.ev.enabled
               /\ panelDisplay' = last.ev.display
               /\ storage'.enabled = BoolString(last.ev.enabled)]_vars

\* a page was loaded after the panel had been switched on, and init() has
\* shown the panel again
C26_Witness ==
    /\ last.op = "init"
    /\ "enabled" \notin last.ev.options.keys
    /\ listeners = 1
    /\ sessionId # FirstSession
    /\ storage.enabled = "true"
    /\ config.enabled
    /\ panelDisplay = "block"

\* a record is the same record as another one: same session, same instant
SameRecord(e, f) == e.sessionId = f.sessionId /\ e.timestamp = f.timestamp

\* the record at position i of the buffer is in the buffer after the step
Remains(i) == \E j \in 1..Len(entries') : SameRecord(entries[i], entries'[j])

\* what a step may do to the records that are in the buffer: it changes no
\* field of one that remains, it keeps their order, and a record is missing
\* afterwards only after Clear, or with all older ones and a full buffer
AppendOnlyStep ==
    /\ \A i \in 1..Len(entries) : \A j \in 1..Len(entries') :
          SameRecord(entries[i], entries'[j]) => entries'[j] = entries[i]
    /\ \A i1, i2 \in 1..Len(entries) : \A j1, j2 \in 1..Len(entries') :
          (/\ i1 < i2
           /\ SameRecord(entries[i1], entries'[j1])
           /\ SameRecord(entries[i2], entries'[j2])) => j1 < j2
    /\ \A i \in 1..Len(entries) :
          ~Remains(i)
            => \/ last'.op = "clear"
               \/ /\ \A k \in 1..i : ~Remains(k)
                  /\ Len(entries') >= config'.maxEntries

\* C27: records are append-only: an operation changes no field of a record in
\* the buffer and keeps the order of the records; records leave the buffer
\* only by eviction of the oldest or by Clear
C27_RecordsAppendOnly ==
    [][(last' # last /\ last'.op # "load") => AppendOnlyStep]_vars

SettleStep == last'.op \in {"fetch-settled", "xhr-settled"} /\ last' # last

\* positions in the buffer after the step: the initiation records of the call
\* that settles, and the records appended by the step
InitiationsOf(call) ==
    {j \in 1..Len(entries') :
        /\ entries'[j].timestamp > call.at
        /\ entries'[j].timestamp <= call.at + call.logged}

Completions == {j \in 1..Len(entries') : entries'[j].timestamp > now}

\* C29: the completion record of a fetch or XHR call is appended after the
\* call's own initiation record, also when another call is pending and records
\* of other calls lie between the two
C29_CompletionAfterInitiation ==
    [][SettleStep
          => LET call == last'.ev.call
             IN /\ StepRecords # <<>> => call.logged >= 1
                /\ call.at + call.logged <= now
                /\ \A i \in InitiationsOf(call) : \A d \in Completions : i < d]_vars

\* a call has settled while an earlier call is still pending; the buffer holds
\* the initiation records of both and then the completion record
C29_Witness ==
    /\ last.op \in {"fetch-settled", "xhr-settled"}
    /\ Len(inflight) = 1
    /\ inflight[1].logged = 1
    /\ inflight[1].at < last.ev.call.at
    /\ last.ev.call.logged = 1
    /\ Len(entries) >= 4
    /\ entries[Len(entries) - 2].timestamp = inflight[1].at + 1
    /\ entries[Len(entries) - 1].timestamp = last.ev.call.at + 1
    /\ entries[Len(entries)].timestamp > last.since

\* the record is the completion record of an XHR call for an outcome
IsXhrCompletion(r, url, out) ==
    IF out.kind = "resolve"
    THEN r.type = "XHR" /\ r.message = FetchDoneMessage(out.status, url)
    ELSE r.type = "ERROR"

IsXhrInitiation(r, url) ==
    r.type = "XHR" /\ r.message = XhrInitMessage(MethodGet, url)

\* C30: after init, every XMLHttpRequest.send appends one initiation record
\* and the browser's send is invoked; when the request settles (load, error,
\* abort or timeout) exactly one completion record is appended, also for an
\* object that is opened and sent again
C30_XhrOneInitiatedOneCompleted ==
    [][/\ (last'.op = "xhr" /\ last' # last /\ xhrLayers >= 1)
            => /\ Len(StepRecords) = 1
               /\ IsXhrInitiation(StepRecords[1], last'.ev.url)
               /\ \E i \in 1..Len(last'.net) : last'.net[i].api = "xhr.send"
       /\ (last'.op = "xhr-settled" /\ last' # last
             /\ last'.ev.call.layers >= 1)
            => /\ Len(StepRecords) = 1
               /\ IsXhrCompletion(StepRecords[1], last'.ev.call.url,
                                  last'.ev.original)
       /\ (last'.op = "xhr-resent" /\ last' # last
             /\ last'.ev.call.layers >= 1)
            => /\ Len(StepRecords) = 2
               /\ IsXhrCompletion(StepRecords[1], last'.ev.call.url,
                                  last'.ev.original)
               /\ IsXhrInitiation(StepRecords[2], last'.ev.call.url)]_vars

\* C31: when window.fetch or XMLHttpRequest is absent as init runs, init
\* still completes: it throws nothing, appends its INIT record, adds the DOM
\* listeners and the error listeners, wraps exactly the network APIs that
\* exist and creates no fetch function where none existed.
C31_AbsentApiDegrades ==
    [][InitStep =>
        /\ last'.threw = "none"
        /\ listeners' = listeners + 1
        /\ errorListeners' = errorListeners + 1
        /\ fetchLayers' = fetchLayers + (IF globals.fetch THEN 1 ELSE 0)
        /\ xhrLayers' = xhrLayers + (IF globals.xhr THEN 1 ELSE 0)
        /\ Len(StepRecords) = 1
        /\ StepRecords[1].type = "INIT"]_vars

AfterRequestStep == last'.op = "htmx:afterRequest" /\ last' # last

Is2xx(status) == status >= 200 /\ status < 300

\* C32: htmx listeners exist only on a page where htmx was defined at init;
\* on an htmx:afterRequest event every HTMX record of a status that is not
\* 2xx is followed at once by an ERROR record holding the first 200
\* characters of the response body, and a 2xx status appends no ERROR record.
C32_ErrorPreviewUnlessOk ==
    [][/\ htmxListeners' > 0 => page.htmx
       /\ AfterRequestStep =>
            LET r == StepRecords
                d == last'.ev
            IN /\ Len(r) > 0 <=> htmxListeners > 0
               /\ \A i \in 1..Len(r) :
                    r[i].type = "HTMX" /\ ~Is2xx(d.status) =>
                        /\ i < Len(r)
                        /\ r[i + 1].type = "ERROR"
                        /\ r[i + 1].message =
                               Substring0(d.responseText, PreviewCap)
               /\ Is2xx(d.status) =>
                    \A i \in 1..Len(r) : r[i].type # "ERROR"]_vars

\* C33: an init with persistLogs on over a stored array S of fewer than
\* maxEntries valid records leaves the buffer S, in stored order, followed by
\* the new INIT record; an init with persistLogs off leaves the stored text
\* as it was and an empty buffer holding the INIT record only.
C33_RestoreThenInit ==
    [][InitStep =>
        LET S == JsonParse(storage.logs)
        IN /\ (/\ config'.persistLogs
               /\ storage.logs.kind = "array"
               /\ Len(storage.logs.items) < config'.maxEntries)
                => /\ entriesType' = "array"
                   /\ Len(entries') = Len(S) + 1
                   /\ SubSeq(entries', 1, Len(S)) = S
                   /\ entries'[Len(entries')].type = "INIT"
                   /\ entries'[Len(entries')].timestamp > now
           /\ ~config'.persistLogs
                => /\ storage'.logs = storage.logs
                   /\ entries = <<>>
                        => /\ Len(entries') = 1
                           /\ entries'[1].type = "INIT"]_vars

AddLogStep == last'.op = "addLog" /\ last' # last

\* the endpoint is one that sendToServer uploads to
Accepted(endpoint) == endpoint # <<>> /\ EndpointAllowed(endpoint)

\* C34: after init, with sendToServer on and an accepted endpoint, one addLog
\* call returns normally, appends exactly its own record (the upload is not
\* captured as a FETCH record) and sends exactly one POST.
C34_UploadNotCaptured ==
    [][(/\ AddLogStep
        /\ logContainer
        /\ config.sendToServer
        /\ Accepted(config.serverEndpoint))
        => /\ last'.threw = "none"
           /\ Len(StepRecords) = 1
           /\ StepRecords[1].message = last'.ev.message
           /\ Cardinality({i \in 1..Len(last'.net) :
                             last'.net[i].api = "fetch"}) = 1]_vars

SendStep == last'.op = "sendToServer" /\ last' # last

\* C35: a call of sendToServer whose endpoint the browser resolves to another
\* origin than the page's (an absolute URL of another host, a URL that only
\* begins with the text of the page origin, a protocol-relative "//host/path")
\* makes no network call.
C35_NoCallToOtherOrigin ==
    [][(SendStep /\ ResolvesElsewhere(config.serverEndpoint))
        => \A i \in 1..Len(last'.net) : last'.net[i].api # "fetch"]_vars

\* a capture by the public addLog or by the fetch wrapper, after init
CaptureStep ==
    /\ last' # last
    /\ last'.op \in {"addLog", "fetch"}
    /\ logContainer
    /\ fetchLayers > 0

\* the step has sent record r to the configured endpoint
Sent(r) ==
    \E i \in 1..Len(last'.net) :
        /\ last'.net[i].api = "fetch"
        /\ last'.net[i].url = config.serverEndpoint
        /\ last'.net[i].body = <<r>>

\* C36: while config.enabled is false the captures still append their records,
\* persist them when persistLogs is on and send them when sendToServer is on;
\* a toggle changes config.enabled, the panel's display and the stored toggle
\* key only, and appends one INFO record when it turns the panel on.
C36_HiddenPanelStillCaptures ==
    [][/\ (CaptureStep /\ ~config.enabled)
            => /\ Len(StepRecords) >= 1
               /\ entries' # <<>>
               /\ entries'[Len(entries')] = StepRecords[Len(StepRecords)]
               /\ (config.persistLogs /\ ~storage.full)
                    => storage'.logs = JsonStringify(entries')
               /\ (config.sendToServer /\ Accepted(config.serverEndpoint))
                    => \A i \in 1..Len(StepRecords) : Sent(StepRecords[i])
       /\ (ToggleStep /\ panelDisplay # "absent")
            => /\ config' = [config EXCEPT !.enabled = ~config.enabled]
               /\ panelDisplay' = Display(config'.enabled)
               /\ storage'.enabled = BoolString(config'.enabled)
               /\ <<listeners, errorListeners, htmxListeners, fetchLayers,
                    xhrLayers, inflight, sessionId>>'
                    = <<listeners, errorListeners, htmxListeners, fetchLayers,
                        xhrLayers, inflight, sessionId>>
               /\ IF config'.enabled
                  THEN /\ Len(StepRecords) = 1
                       /\ StepRecords[1].type = "INFO"
                       /\ StepRecords[1].message = EnabledMessage
                  ELSE /\ entries' = entries
                       /\ storage'.logs = storage.logs]_vars

\* side checks of the counterexamples: which path breaks which claim
Side_C1_WithoutReinit == listeners <= 1 => C1_BufferWithinMaxEntries

Side_C3_HtmxOnly == last.op = "htmx:configRequest" => C3_NoRawSensitiveValue

Side_C6_EvilOnly ==
    config.serverEndpoint = CrossOriginEndpoint => C6_CrossOriginRefused


Side_C7_SingleInitNoSend ==
    ( /\ fetchLayers <= 1
      /\ ~config.sendToServer
      /\ last.op = "fetch-settled" => last.ev.call.layers <= 1 )
    => C7_OneInitiatedOneCompleted /\ C8_ResolvedCallTwoRecords

Side_C9_NoSend == ~config.sendToServer => C9_WrappersTransparent

Side_C12_StorageNotFull ==
    [][ (SecondInitStep /\ ~storage.full)
          => Keys(entries')
               = Keys(Limit(Append(entries, entries'[Len(entries')]),
                            config'.maxEntries)) ]_vars

Side_C14_Unparseable ==
    [][ ( /\ InitStep
          /\ config'.persistLogs
          /\ storage.logs.kind = "unparseable"
          /\ entries = <<>> )
        => /\ last'.threw = "none"
           /\ "failed-to-restore" \in Range(last'.diag)
           /\ Len(entries') = 1 ]_vars

Side_C16_AfterInit == logContainer => C16_SinkFailureContained

Side_C20_AfterFirstInit ==
    (~config.persistLogs /\ ~config.sendToServer
       /\ ~(last.op = "init" /\ listeners = 1))
      => C20_LocalByDefault

\* C21: before init the method is still in place and the record is appended
Side_C21_BeforeInitAppends ==
    (last.op = "log" /\ ~logContainer)
        => /\ entries # <<>>
           /\ entries[Len(entries)].message = last.ev.message

\* C22: clicks and typing inside the panel are ignored; the keydown and submit
\* listeners do not look at the target
Side_C22_ClickAndInputIgnored ==
    (last.op \in {"click", "input"} /\ last.ev.inPanel)
        => \A i \in 1..Len(captured) : captured[i].entry.timestamp <= last.since

\* C24: the long messages of this specification are click descriptors
Side_C24_OnlyClickDescriptors ==
    \A i \in 1..Len(entries) :
        Len(entries[i].message) > 200 => entries[i].type = "CLICK"

\* C25: the document of the current build names the path only and no user
\* agent, and holds the buffer of the call
Side_C25_CurrentDocument ==
    [][ExportStep
          => LET doc == last'.result
             IN /\ doc.entries = entries
                /\ doc.sessionId = sessionId
                /\ DOMAIN doc = {"sessionId", "exportedAt", "pageUrl", "entries"}
                /\ doc.pageUrl = Pathname
                /\ ~Contains(doc.pageUrl, <<"?">>)]_vars

\* C25: in the current build, without upload and below the capacity, the
\* records stay and the INFO record follows them
Side_C25_CurrentRecord ==
    [][(ExportStep /\ ~config.sendToServer /\ Len(entries) < config.maxEntries)
          => /\ SubSeq(entries', 1, Len(entries)) = entries
             /\ Len(entries') = Len(entries) + 1
             /\ entries'[Len(entries')].message
                  = ExportedMessage(Len(entries))]_vars

\* C27: every operation but init keeps the buffer append-only
Side_C27_ExceptInit ==
    [][(last' # last /\ last'.op \notin {"load", "init"}) => AppendOnlyStep]_vars

\* C27: so does an init that finds no stored log or does not restore
Side_C27_InitWithoutRestore ==
    [][(InitStep /\ (~config'.persistLogs \/ storage.logs.kind = "absent"))
          => AppendOnlyStep]_vars

\* C30: a request sent once through one wrapper, ending by load or error, has
\* its one initiation and its one completion record
Side_C30_SentOnceLoadOrError ==
    [][/\ (last'.op = "xhr" /\ last' # last /\ xhrLayers = 1)
            => Len(StepRecords) = 1
       /\ (last'.op = "xhr-settled" /\ last' # last
             /\ last'.ev.call.layers = 1
             /\ last'.ev.original.kind \notin XhrEndings)
            => /\ Len(StepRecords) = 1
               /\ IsXhrCompletion(StepRecords[1], last'.ev.call.url,
                                  last'.ev.original)]_vars

\* C30: abort and timeout leave no record at all
Side_C30_AbortAndTimeoutSilent ==
    [][(last'.op = "xhr-settled" /\ last' # last
          /\ last'.ev.original.kind \in XhrEndings)
          => captured' = captured /\ entries' = entries]_vars

\* C31 fails only in a browser that lacks one of the two APIs
Side_C31_BothPresent ==
    [][InitStep /\ globals = AllGlobals =>
        /\ last'.threw = "none"
        /\ listeners' = listeners + 1
        /\ errorListeners' = errorListeners + 1
        /\ fetchLayers' = fetchLayers + 1
        /\ xhrLayers' = xhrLayers + 1
        /\ Len(StepRecords) = 1
        /\ StepRecords[1].type = "INIT"]_vars

\* without XMLHttpRequest init throws before the error listeners are added
Side_C31_NoXhrInitThrows ==
    [][InitStep /\ ~globals.xhr =>
        /\ last'.threw = "ReferenceError"
        /\ errorListeners' = errorListeners
        /\ StepRecords = <<>>]_vars

\* without window.fetch init still installs a fetch wrapper
Side_C31_FetchCreated ==
    [][InitStep /\ ~globals.fetch => fetchLayers' = fetchLayers + 1]_vars

\* C32 fails only for the statuses below 400 that are not 2xx
Side_C32_From400 ==
    [][/\ htmxListeners' > 0 => page.htmx
       /\ AfterRequestStep /\ (Is2xx(last'.ev.status) \/ last'.ev.status >= 400)
            =>
            LET r == StepRecords
                d == last'.ev
            IN /\ Len(r) > 0 <=> htmxListeners > 0
               /\ \A i \in 1..Len(r) :
                    r[i].type = "HTMX" /\ ~Is2xx(d.status) =>
                        /\ i < Len(r)
                        /\ r[i + 1].type = "ERROR"
                        /\ r[i + 1].message =
                               Substring0(d.responseText, PreviewCap)
               /\ Is2xx(d.status) =>
                    \A i \in 1..Len(r) : r[i].type # "ERROR"]_vars

\* a status below 400 that is not 2xx appends the HTMX records alone
Side_C32_Below400NoPreview ==
    [][AfterRequestStep /\ ~Is2xx(last'.ev.status) /\ last'.ev.status < 400 =>
        \A i \in 1..Len(StepRecords) : StepRecords[i].type = "HTMX"]_vars

\* C33 fails only where the INIT record is uploaded through the wrapped fetch
Side_C33_WithoutUpload ==
    [][(/\ InitStep
        /\ ~(config'.sendToServer /\ config'.serverEndpoint # <<>>
                /\ EndpointAllowed(config'.serverEndpoint))) =>
        LET S == JsonParse(storage.logs)
        IN /\ (/\ config'.persistLogs
               /\ storage.logs.kind = "array"
               /\ Len(storage.logs.items) < config'.maxEntries)
                => /\ entriesType' = "array"
                   /\ Len(entries') = Len(S) + 1
                   /\ SubSeq(entries', 1, Len(S)) = S
                   /\ entries'[Len(entries')].type = "INIT"
                   /\ entries'[Len(entries')].timestamp > now
           /\ ~config'.persistLogs
                => /\ storage'.logs = storage.logs
                   /\ entries = <<>>
                        => /\ Len(entries') = 1
                           /\ entries'[1].type = "INIT"]_vars

\* C34: the upload re-enters addLog through the fetch wrapper until the stack
\* is exhausted, and no POST leaves the page
Side_C34_UploadRecursion ==
    [][(/\ AddLogStep
        /\ logContainer
        /\ config.sendToServer
        /\ Accepted(config.serverEndpoint))
        => /\ last'.threw = "RangeError"
           /\ Len(StepRecords) > 1
           /\ \A i \in 2..Len(StepRecords) : StepRecords[i].type = "FETCH"
           /\ last'.net = <<>>]_vars

\* C34: without an upload one addLog call appends one record and returns
Side_C34_NoUpload ==
    [][(/\ AddLogStep
        /\ logContainer
        /\ ~(config.sendToServer /\ Accepted(config.serverEndpoint)))
        => /\ last'.threw = "none"
           /\ Len(StepRecords) = 1
           /\ last'.net = <<>>]_vars

\* C35: the endpoints that are refused, and the ones that get through
Side_C35_OtherHostRefused ==
    [][(SendStep /\ config.serverEndpoint = CrossOriginEndpoint)
        => /\ last'.net = <<>>
           /\ last'.diag = <<"blocked-cross-origin">>]_vars

Side_C35_SentWhenNoAutomaticUpload ==
    [][(/\ SendStep
        /\ ~config.sendToServer
        /\ config.serverEndpoint
             \in {LookalikeEndpoint, ProtocolRelativeEndpoint})
        => /\ Len(last'.net) = 1
           /\ last'.net[1].url = config.serverEndpoint
           /\ last'.net[1].method = "POST"]_vars

Side_C35_OwnOriginSent ==
    [][(SendStep /\ ~config.sendToServer
          /\ ~ResolvesElsewhere(config.serverEndpoint))
        => Len(last'.net) = 1]_vars

\* C36 fails only where a record is uploaded through the wrapped fetch
Side_C36_WithoutUpload ==
    [][~(config.sendToServer /\ Accepted(config.serverEndpoint)) =>
       /\ (CaptureStep /\ ~config.enabled)
            => /\ Len(StepRecords) >= 1
               /\ entries' # <<>>
               /\ entries'[Len(entries')] = StepRecords[Len(StepRecords)]
               /\ (config.persistLogs /\ ~storage.full)
                    => storage'.logs = JsonStringify(entries')
       /\ (ToggleStep /\ panelDisplay # "absent")
            => /\ config' = [config EXCEPT !.enabled = ~config.enabled]
               /\ panelDisplay' = Display(config'.enabled)
               /\ storage'.enabled = BoolString(config'.enabled)
               /\ <<listeners, errorListeners, htmxListeners, fetchLayers,
                    xhrLayers, inflight, sessionId>>'
                    = <<listeners, errorListeners, htmxListeners, fetchLayers,
                        xhrLayers, inflight, sessionId>>
               /\ IF config'.enabled
                  THEN /\ Len(StepRecords) = 1
                       /\ StepRecords[1].type = "INFO"
                       /\ StepRecords[1].message = EnabledMessage
                  ELSE /\ entries' = entries
                       /\ storage'.logs = storage.logs]_vars

\* C36: with the upload on, the hidden panel's captures are appended and
\* persisted but the POST does not leave the page
Side_C36_UploadLost ==
    [][(/\ CaptureStep /\ ~config.enabled
        /\ config.sendToServer /\ Accepted(config.serverEndpoint))
        => /\ Len(StepRecords) >= 1
           /\ last'.threw = "RangeError"
           /\ \A i \in 1..Len(last'.net) : last'.net[i].method # "POST"]_vars

====
